---- MODULE Spec2Model ----
(***************************************************************************)
(* Quote resolution and valuation pipeline of the asset manager:           *)
(*   - the portfolio route GET (two variants of the route are kept in the  *)
(*     repository: "v1" fetches each unique fund code in a sequential      *)
(*     loop, "v2" fetches one NAV per fund holding under Promise.all),     *)
(*   - the prices route GET (?symbols=...), a direct caller of             *)
(*     fetchMultipleStockPrices,                                           *)
(*   - fetchMultipleStockPrices, fetchStockPriceV8, fetchMutualFundNAV,    *)
(*   - fetchUsdJpyRate / fetchFromAlternativeApi,                          *)
(*   - getLatestPrices, calculateHoldingsValue, generatePortfolioSummary.  *)
(* Strings of the program (symbols, fund codes) are sequences of           *)
(* one-character strings so that the regular expressions of the code can   *)
(* be evaluated on them.  Amounts are integers.                            *)
(***************************************************************************)
EXTENDS Integers, Sequences, FiniteSets, TLC

VARIABLES
    variant,            \* which variant of the portfolio route runs: "v1" | "v2"
    route,              \* "portfolio" | "prices": the handler of this request
    query,              \* prices route: the searchParams symbol and symbols
    pc,                 \* position of the handler
    holdings,           \* const holdings: Holding[] (after getHoldings)
    prices,             \* let prices: Map<symbol, {price, currency}>
    previousCloseMap,   \* const previousCloseMap: Map<symbol, number>
    priceSource,        \* let priceSource
    tiers,              \* the tiers entered so far, in order
    cacheRead,          \* outcome of the await getLatestPrices(): "none" | "ok" | "failed"
    stockQuotes,        \* const stockQuotes (result of fetchMultipleStockPrices in GET)
    fmPc,               \* fetchMultipleStockPrices: "idle" | "await_all" | "pause" | "returned" | "threw"
    fmPath,             \* which loop runs: "stocks" | "funds"
    fmStocks,           \* const stocks
    fmFunds,            \* const mutualFunds
    fmI,                \* loop variable i of the running loop
    fmStockSlots,       \* promise of the fetch of stocks[j]: "idle", "pending" or its settlement
    fmFundSlots,        \* promise of the fetch of mutualFunds[j]
    fmResults,          \* const results: Map<symbol, StockQuote>
    singleSlot,         \* prices route: promise of the single fetchStockPriceV8(symbol)
    navEntries,         \* fund stage of GET: the (fundCode, holding symbols) to fetch
    navSlots,           \* fund stage of GET: promise of each fetchMutualFundNAV call
    navIdx,             \* fund stage of v1: position of the for-of loop
    primaryResp,        \* answer of api.exchangerate.host in this request
    secondaryResp,      \* answer of api.frankfurter.app in this request
    primaryCalls,       \* number of requests sent to the primary provider
    secondaryCalls,     \* number of requests sent to the secondary provider
    usdJpyRate,         \* let usdJpyRate
    exchangeRateSource, \* let exchangeRateSource
    sheets,             \* the rows appended to the spreadsheet by this request, per sheet
    savedCount,         \* cron: let savedCount
    response            \* the NextResponse.json(...) returned

reqVars   == <<variant, route, query, holdings>>
priceVars == <<prices, previousCloseMap, priceSource, tiers, cacheRead, stockQuotes>>
fmVars    == <<fmPc, fmPath, fmStocks, fmFunds, fmI, fmStockSlots, fmFundSlots, fmResults, singleSlot>>
navVars   == <<navEntries, navSlots, navIdx>>
rateVars  == <<primaryResp, secondaryResp, primaryCalls, secondaryCalls, usdJpyRate, exchangeRateSource>>
vars      == <<reqVars, pc, priceVars, fmVars, navVars, rateVars, sheets, savedCount, response>>

-----------------------------------------------------------------------------
(* Bounds of the model                                                     *)

\* longest list of holdings drawn freely from HoldingUniverse
MaxHoldings == 2
\* length of the long portfolios (more holdings than one batch)
WideLen == 6
\* most rows of the price_history sheet
MaxRows == 2

-----------------------------------------------------------------------------
(* Characters and strings                                                  *)

Digits == {"0", "1", "2", "3", "4", "5", "6", "7", "8", "9"}
UpperLetters == {"A", "B", "C", "D", "E", "F", "G", "H", "I", "J", "K", "L", "M",
                 "N", "O", "P", "Q", "R", "S", "T", "U", "V", "W", "X", "Y", "Z"}
LowerLetters == {"a", "b", "c", "d", "e", "f", "g", "h", "i", "j", "k", "l", "m",
                 "n", "o", "p", "q", "r", "s", "t", "u", "v", "w", "x", "y", "z"}
Letters == UpperLetters \cup LowerLetters

\* s.slice(0, n)
Prefix(s, n) == SubSeq(s, 1, n)

\* the elements of a sequence
Range(s) == {s[j] : j \in DOMAIN s}

\* a JavaScript Map as a function; Map.set(k, v)
EmptyMap == <<>>
MapSet(m, k, v) == [x \in (DOMAIN m) \cup {k} |-> IF x = k THEN v ELSE m[x]]

\* the value `undefined` of a numeric field
undefined == -1
\* JavaScript truthiness of a number (or undefined): a || b
Truthy(n) == n # undefined /\ n # 0
OrElse(a, b) == IF Truthy(a) THEN a ELSE b

-----------------------------------------------------------------------------
(* Symbols, fund codes                                                      *)

S_7203T    == <<"7", "2", "0", "3", ".", "T">>
S_7203Tsbi == <<"7", "2", "0", "3", ".", "T", "-", "s", "b", "i">>
S_AAPL     == <<"A", "A", "P", "L">>
S_capital_world     == <<"c","a","p","i","t","a","l","-","w","o","r","l","d">>
S_ghq_dist          == <<"g","h","q","-","d","i","s","t">>
S_ghq_reinv         == <<"g","h","q","-","r","e","i","n","v">>
S_trowe_allcap      == <<"t","r","o","w","e","-","a","l","l","c","a","p">>
S_capital_ica       == <<"c","a","p","i","t","a","l","-","i","c","a">>
S_pictet_gold       == <<"p","i","c","t","e","t","-","g","o","l","d">>
S_ifree_fang        == <<"i","f","r","e","e","-","f","a","n","g">>
S_emaxis_ac_general == <<"e","m","a","x","i","s","-","a","c","-","g","e","n","e","r","a","l">>
S_emaxis_ac_nisa    == <<"e","m","a","x","i","s","-","a","c","-","n","i","s","a">>
S_unmapped_fund     == <<"m","y","-","f","u","n","d">>

C_9331107A == <<"9","3","3","1","1","0","7","A">>
C_47316169 == <<"4","7","3","1","6","1","6","9">>
C_AW31122B == <<"A","W","3","1","1","2","2","B">>
C_93311181 == <<"9","3","3","1","1","1","8","1">>
C_42312199 == <<"4","2","3","1","2","1","9","9">>
C_04311181 == <<"0","4","3","1","1","1","8","1">>
C_0331418A == <<"0","3","3","1","4","1","8","A">>

\* const FUND_CODE_MAP: holding symbol -> Yahoo Finance Japan fund code
FUND_CODE_MAP ==
    [k \in {S_capital_world, S_ghq_dist, S_ghq_reinv, S_trowe_allcap, S_capital_ica,
            S_pictet_gold, S_ifree_fang, S_emaxis_ac_general, S_emaxis_ac_nisa} |->
        CASE k = S_capital_world     -> C_9331107A
          [] k = S_ghq_dist          -> C_47316169
          [] k = S_ghq_reinv         -> C_47316169
          [] k = S_trowe_allcap      -> C_AW31122B
          [] k = S_capital_ica       -> C_93311181
          [] k = S_pictet_gold       -> C_42312199
          [] k = S_ifree_fang        -> C_04311181
          [] k = S_emaxis_ac_general -> C_0331418A
          [] k = S_emaxis_ac_nisa    -> C_0331418A]

\* FUND_CODE_MAP[k], with <<>> for undefined (a falsy value, like '')
FundCodeOf(k) == IF k \in DOMAIN FUND_CODE_MAP THEN FUND_CODE_MAP[k] ELSE <<>>

\* variant of the pattern without the optional letter: /^(\d{4}\.T)/
TokyoMatchLen_NoLetter(symbol) ==
    IF /\ Len(symbol) >= 6
       /\ \A j \in 1..4 : symbol[j] \in Digits
       /\ symbol[5] = "." /\ symbol[6] = "T"
    THEN 6
    ELSE 0

\* symbol.match(/^(\d{4}[A-Za-z]?\.T)/): the length of the match, 0 when none
TokyoMatchLen(symbol) ==
    IF /\ Len(symbol) >= 6
       /\ \A j \in 1..4 : symbol[j] \in Digits
       /\ symbol[5] = "." /\ symbol[6] = "T"
    THEN 6
    ELSE IF /\ Len(symbol) >= 7
            /\ \A j \in 1..4 : symbol[j] \in Digits
            /\ symbol[5] \in Letters
            /\ symbol[6] = "." /\ symbol[7] = "T"
         THEN 7
         ELSE 0

\* function normalizeSymbolForPriceLookup(symbol)
normalizeSymbolForPriceLookup(symbol) ==
    IF TokyoMatchLen(symbol) > 0 THEN Prefix(symbol, TokyoMatchLen(symbol)) ELSE symbol

\* fund.symbol.match(/^(\d{8}|[0-9A-Z]{8})/): match[1], <<>> when no match
FundCodeInSymbol(symbol) ==
    IF Len(symbol) >= 8 /\ \A j \in 1..8 : symbol[j] \in Digits \cup UpperLetters
    THEN Prefix(symbol, 8)
    ELSE <<>>

\* function isMutualFundCode(symbol)
isMutualFundCode(symbol) ==
    /\ Len(symbol) >= 8
    /\ \A j \in 1..Len(symbol) : symbol[j] \in Letters \cup Digits
    /\ \E j \in 1..Len(symbol) : symbol[j] \in Letters

-----------------------------------------------------------------------------
(* Holdings read from the store                                            *)

Holding(id, symbol, category, quantity, avgCost, currency) ==
    [id |-> id, symbol |-> symbol, category |-> category, quantity |-> quantity,
     avgCost |-> avgCost, currency |-> currency]

\* rows of the holdings sheet the requests are run on
HoldingUniverse ==
    { Holding(<<"1">>, S_7203T,    "domestic_stock", 2, 1, "JPY"),
      Holding(<<"2">>, S_7203T,    "domestic_stock", 1, 2, "JPY"),
      Holding(<<"3">>, S_7203Tsbi, "domestic_stock", 1, 4, "JPY"),
      Holding(<<"4">>, S_AAPL,     "us_stock",       1, 1, "USD"),
      Holding(<<"5">>, S_ghq_dist, "mutual_fund",    1, 1, "JPY"),
      Holding(<<"6">>, S_ghq_reinv, "mutual_fund",   2, 2, "JPY"),
      Holding(<<"7">>, S_unmapped_fund, "mutual_fund", 1, 3, "JPY"),
      Holding(<<"8">>, C_0331418A, "mutual_fund",    1, 2, "JPY") }

\* all lists of at most n elements of S
SeqsUpTo(S, n) == UNION { [1..k -> S] : k \in 0..n }

\* the k-th of a run of distinct Tokyo symbols: 1301.T, 1302.T, ...
DigitOf(k) == CASE k = 0 -> "0" [] k = 1 -> "1" [] k = 2 -> "2" [] k = 3 -> "3"
                [] k = 4 -> "4" [] k = 5 -> "5" [] k = 6 -> "6" [] k = 7 -> "7"
                [] k = 8 -> "8" [] k = 9 -> "9"
WideStockSymbol(k) == <<"1", "3", DigitOf(k \div 10), DigitOf(k % 10), ".", "T">>
WideStocks(n) == [k \in 1..n |-> Holding(<<"s", DigitOf(k % 10)>>, WideStockSymbol(k), "domestic_stock", 1, 1, "JPY")]

\* a run of fund holdings with distinct mapped fund codes
MappedFundSymbols == <<S_capital_world, S_ghq_dist, S_trowe_allcap, S_capital_ica,
                       S_pictet_gold, S_ifree_fang, S_emaxis_ac_general,
                       S_ghq_reinv, S_emaxis_ac_nisa>>
WideFunds(n) ==
    [k \in 1..n |->
        Holding(<<"f", DigitOf(k % 10)>>, MappedFundSymbols[((k - 1) % Len(MappedFundSymbols)) + 1],
                "mutual_fund", 1, 1, "JPY")]

\* the contents of the holdings sheet a request may find: short lists of rows with
\* distinct ids, and the two long ones
Portfolios ==
    {l \in SeqsUpTo(HoldingUniverse, MaxHoldings) :
        \A j, k \in DOMAIN l : j # k => l[j].id # l[k].id}
    \cup {WideStocks(WideLen), WideFunds(WideLen)}

-----------------------------------------------------------------------------
(* Answers of the quote providers                                          *)

\* answers of the chart API (query1.finance.yahoo.com/v8/finance/chart)
EquityResponses ==
    { [kind |-> "notok"],
      [kind |-> "throw"],
      [kind |-> "ok", hasResult |-> FALSE],
      [kind |-> "ok", hasResult |-> TRUE, regularMarketPrice |-> 3, previousClose |-> 2,
       closes |-> <<2, 3>>, currency |-> "JPY"],
      [kind |-> "ok", hasResult |-> TRUE, regularMarketPrice |-> undefined,
       previousClose |-> undefined, closes |-> <<2, 3>>, currency |-> "JPY"],
      [kind |-> "ok", hasResult |-> TRUE, regularMarketPrice |-> undefined,
       previousClose |-> undefined, closes |-> <<>>, currency |-> "none"] }

\* what each of the five NAV patterns captured in a page: <<>> is no match
NoMatch == <<>>
\* answers of finance.yahoo.co.jp/quote/<code>
FundResponses ==
    { [kind |-> "notok"],
      [kind |-> "throw"],
      [kind |-> "ok", captures |-> <<NoMatch, NoMatch, NoMatch, NoMatch, NoMatch>>, change |-> 0],
      [kind |-> "ok", captures |-> <<NoMatch, NoMatch, <<"0">>, NoMatch, NoMatch>>, change |-> 0],
      [kind |-> "ok", captures |-> <<<<"5">>, NoMatch, NoMatch, NoMatch, NoMatch>>, change |-> 1] }

\* settlements of a fetch promise
Null == [kind |-> "null"]
Rejected == [kind |-> "rejected"]
Pending == [kind |-> "pending"]
Idle == [kind |-> "idle"]
Quote(symbol, price, previousClose, currency) ==
    [kind |-> "quote", symbol |-> symbol, price |-> price,
     previousClose |-> previousClose, currency |-> currency]
IsQuote(r) == r.kind = "quote"
Settled(r) == r.kind \in {"null", "quote", "rejected"}

\* closes[closes.length - k], undefined out of range
CloseFromEnd(closes, k) ==
    IF Len(closes) - k + 1 >= 1 THEN closes[Len(closes) - k + 1] ELSE undefined

\* variant without the try/catch: an exception of the fetch rejects the promise
fetchStockPriceV8_Uncaught(symbol, resp) ==
    IF resp.kind = "notok" THEN Null
    ELSE IF resp.kind = "throw" THEN Rejected
    ELSE IF ~resp.hasResult THEN Null
    ELSE LET price == OrElse(OrElse(resp.regularMarketPrice, CloseFromEnd(resp.closes, 1)), 0)
             previousClose == OrElse(OrElse(resp.previousClose, CloseFromEnd(resp.closes, 2)), price)
         IN Quote(symbol, price, previousClose, IF resp.currency = "JPY" THEN "JPY" ELSE "USD")

\* export async function fetchStockPriceV8(symbol): the settlement on answer resp
fetchStockPriceV8(symbol, resp) ==
    IF resp.kind = "notok" THEN Null
    ELSE IF resp.kind = "throw" THEN Null
    ELSE IF ~resp.hasResult THEN Null
    ELSE LET price == OrElse(OrElse(resp.regularMarketPrice, CloseFromEnd(resp.closes, 1)), 0)
             previousClose == OrElse(OrElse(resp.previousClose, CloseFromEnd(resp.closes, 2)), price)
         IN Quote(symbol, price, previousClose, IF resp.currency = "JPY" THEN "JPY" ELSE "USD")

\* match[1].replace(/,/g, '')
RECURSIVE StripCommas(_)
StripCommas(s) ==
    IF s = <<>> THEN <<>>
    ELSE IF Head(s) = "," THEN StripCommas(Tail(s))
    ELSE <<Head(s)>> \o StripCommas(Tail(s))

DigitValue(c) == CHOOSE k \in 0..9 : DigitOf(k) = c

\* parseFloat of a string of digits; NaN (here undefined) for the empty string
RECURSIVE ParseDigits(_, _)
ParseDigits(s, acc) ==
    IF s = <<>> THEN acc ELSE ParseDigits(Tail(s), 10 * acc + DigitValue(Head(s)))
parseFloat(s) == IF s = <<>> THEN undefined ELSE ParseDigits(s, 0)

\* variant of the loop that stops at the first pattern that matched, positive or not
RECURSIVE ExtractNAV_FirstMatch(_, _)
ExtractNAV_FirstMatch(captures, k) ==
    IF k > Len(captures) THEN 0
    ELSE IF captures[k] # NoMatch
         THEN IF parseFloat(StripCommas(captures[k])) > 0
              THEN parseFloat(StripCommas(captures[k])) ELSE 0
         ELSE ExtractNAV_FirstMatch(captures, k + 1)

\* the for loop over [priceMatch, priceMatch2, priceMatch3, ogMatch, dataMatch]
RECURSIVE ExtractNAV(_, _)
ExtractNAV(captures, k) ==
    IF k > Len(captures) THEN 0
    ELSE IF captures[k] # NoMatch /\ parseFloat(StripCommas(captures[k])) > 0
         THEN parseFloat(StripCommas(captures[k]))
         ELSE ExtractNAV(captures, k + 1)

\* export async function fetchMutualFundNAV(fundCode): the settlement on answer resp
fetchMutualFundNAV(fundCode, resp) ==
    IF resp.kind = "notok" THEN Null
    ELSE IF resp.kind = "throw" THEN Null
    ELSE LET price == ExtractNAV(resp.captures, 1)
         IN IF price = 0 THEN Null
            ELSE Quote(fundCode, price, price - resp.change, "JPY")

-----------------------------------------------------------------------------
(* fetchMultipleStockPrices                                                *)

\* const batchSize = 5
batchSize == 5

\* symbols.filter(s => !isMutualFundCode(s)), symbols.filter(s => isMutualFundCode(s))
StocksOf(symbols) == LET Keep(x) == ~isMutualFundCode(x) IN SelectSeq(symbols, Keep)
MutualFundsOf(symbols) == LET Keep(x) == isMutualFundCode(x) IN SelectSeq(symbols, Keep)

\* the indices of list.slice(i, i + batchSize)
BatchIndices(i, len) == {j \in 1..len : i < j /\ j <= i + batchSize}

\* batch.map(symbol => fetch...(symbol)): the promises of the batch at i are created
IssueBatch(slots, i) ==
    [j \in DOMAIN slots |-> IF j \in BatchIndices(i, Len(slots)) THEN Pending ELSE slots[j]]

\* variant of the pause test that also pauses after a last, full batch
PauseNeeded_AfterFullBatch(i, len) == i + batchSize <= len

\* if (i + batchSize < list.length) await new Promise(resolve => setTimeout(...))
PauseNeeded(i, len) == i + batchSize < len

\* batchResults.forEach(result => { if (result) results.set(result.symbol, result) })
RECURSIVE MergeBatch(_, _, _, _)
MergeBatch(results, slots, j, last) ==
    IF j > last THEN results
    ELSE MergeBatch(IF IsQuote(slots[j]) THEN MapSet(results, slots[j].symbol, slots[j])
                    ELSE results,
                    slots, j + 1, last)

FmList == IF fmPath = "stocks" THEN fmStocks ELSE fmFunds
FmSlots == IF fmPath = "stocks" THEN fmStockSlots ELSE fmFundSlots
FmLast == IF fmI + batchSize < Len(FmList) THEN fmI + batchSize ELSE Len(FmList)

\* the loop heads: for (let i = ...; i < stocks.length; ...), then the same for
\* mutualFunds, then return results.  The function runs on from loop head (path, i)
\* to its next await.
FmRunFrom(path, i, stocks, funds, stockSlots, fundSlots) ==
    IF path = "stocks" /\ i < Len(stocks)
    THEN /\ fmPath' = "stocks" /\ fmI' = i /\ fmPc' = "await_all"
         /\ fmStockSlots' = IssueBatch(stockSlots, i)
         /\ fmFundSlots' = fundSlots
    ELSE IF path = "stocks" /\ 0 < Len(funds)
    THEN /\ fmPath' = "funds" /\ fmI' = 0 /\ fmPc' = "await_all"
         /\ fmStockSlots' = stockSlots
         /\ fmFundSlots' = IssueBatch(fundSlots, 0)
    ELSE IF path = "funds" /\ i < Len(funds)
    THEN /\ fmPath' = "funds" /\ fmI' = i /\ fmPc' = "await_all"
         /\ fmStockSlots' = stockSlots
         /\ fmFundSlots' = IssueBatch(fundSlots, i)
    ELSE /\ fmPath' = path /\ fmI' = i /\ fmPc' = "returned"
         /\ fmStockSlots' = stockSlots
         /\ fmFundSlots' = fundSlots

\* the call fetchMultipleStockPrices(symbols), up to its first await
FmCall(symbols) ==
    /\ fmStocks' = StocksOf(symbols)
    /\ fmFunds' = MutualFundsOf(symbols)
    /\ fmResults' = EmptyMap
    /\ FmRunFrom("stocks", 0, StocksOf(symbols), MutualFundsOf(symbols),
                 [j \in 1..Len(StocksOf(symbols)) |-> Idle],
                 [j \in 1..Len(MutualFundsOf(symbols)) |-> Idle])

\* one fetch of the running batch settles: fetchStockPriceV8 / fetchMutualFundNAV returns
FmFetchSettles ==
    /\ fmPc = "await_all"
    /\ \E j \in DOMAIN FmSlots :
        /\ FmSlots[j] = Pending
        /\ IF fmPath = "stocks"
           THEN \E resp \in EquityResponses :
                  /\ fmStockSlots' = [fmStockSlots EXCEPT ![j] = fetchStockPriceV8(fmStocks[j], resp)]
                  /\ UNCHANGED fmFundSlots
           ELSE \E resp \in FundResponses :
                  /\ fmFundSlots' = [fmFundSlots EXCEPT ![j] = fetchMutualFundNAV(fmFunds[j], resp)]
                  /\ UNCHANGED fmStockSlots
    /\ UNCHANGED <<fmPc, fmPath, fmStocks, fmFunds, fmI, fmResults, singleSlot>>
    /\ UNCHANGED <<reqVars, pc, priceVars, navVars, rateVars, response>>
    /\ UNCHANGED <<sheets, savedCount>>

\* await Promise.all(promises) resumes: all of the batch fulfilled, or one rejected
FmJoin ==
    /\ fmPc = "await_all"
    /\ LET batch == BatchIndices(fmI, Len(FmList))
           rejected == \E j \in batch : FmSlots[j] = Rejected
       IN /\ rejected \/ \A j \in batch : Settled(FmSlots[j])
          /\ IF rejected
             THEN /\ fmPc' = "threw"
                  /\ UNCHANGED <<fmPath, fmI, fmStockSlots, fmFundSlots, fmResults>>
             ELSE /\ fmResults' = MergeBatch(fmResults, FmSlots, fmI + 1, FmLast)
                  /\ IF PauseNeeded(fmI, Len(FmList))
                     THEN /\ fmPc' = "pause"
                          /\ UNCHANGED <<fmPath, fmI, fmStockSlots, fmFundSlots>>
                     ELSE FmRunFrom(fmPath, fmI + batchSize, fmStocks, fmFunds,
                                    fmStockSlots, fmFundSlots)
    /\ UNCHANGED <<fmStocks, fmFunds, singleSlot>>
    /\ UNCHANGED <<reqVars, pc, priceVars, navVars, rateVars, response>>
    /\ UNCHANGED <<sheets, savedCount>>

\* the setTimeout of the pause fires: i += batchSize and the loop goes on
FmPauseEnds ==
    /\ fmPc = "pause"
    /\ FmRunFrom(fmPath, fmI + batchSize, fmStocks, fmFunds, fmStockSlots, fmFundSlots)
    /\ UNCHANGED <<fmStocks, fmFunds, fmResults, singleSlot>>
    /\ UNCHANGED <<reqVars, pc, priceVars, navVars, rateVars, response>>
    /\ UNCHANGED <<sheets, savedCount>>

-----------------------------------------------------------------------------
(* The prices route: GET /api/prices?symbol=... | ?symbols=a,b,...         *)

WideFundCode(k) == <<"A", "W", "3", "1", "1", "2", DigitOf(k % 10), "B">>
StockSymbols(n) == [k \in 1..n |-> WideStockSymbol(k)]
FundCodes(m) == [k \in 1..m |-> WideFundCode(k)]

\* the lists given in ?symbols=
SymbolLists ==
    { StockSymbols(nm[1]) \o FundCodes(nm[2]) :
        nm \in {x \in (0..WideLen) \X (0..WideLen) : x[1] + x[2] <= WideLen + 1} }
    \cup { <<S_7203T, S_7203T>>, <<C_AW31122B, S_AAPL, C_47316169>> }

\* the query of a request to the prices route
PriceRequests ==
    { [symbol |-> <<>>, symbols |-> l] : l \in SymbolLists }
    \cup { [symbol |-> S_AAPL, symbols |-> <<>>], [symbol |-> S_AAPL, symbols |-> <<S_7203T>>] }

\* GET of the prices route up to its first await
PricesBegin ==
    /\ route = "prices" /\ pc = "start"
    /\ IF query.symbol # <<>>
       THEN /\ singleSlot' = Pending
            /\ pc' = "await_single"
            /\ UNCHANGED <<fmPc, fmPath, fmStocks, fmFunds, fmI, fmStockSlots, fmFundSlots,
                           fmResults, response>>
       ELSE IF query.symbols # <<>>
       THEN /\ FmCall(query.symbols)
            /\ pc' = "await_prices"
            /\ UNCHANGED <<singleSlot, response>>
       ELSE /\ response' = [status |-> 400, source |-> "prices"]
            /\ pc' = "done"
            /\ UNCHANGED fmVars
    /\ UNCHANGED <<reqVars, priceVars, navVars, rateVars>>
    /\ UNCHANGED <<sheets, savedCount>>

\* const price = await fetchStockPriceV8(symbol) resumes
PricesSingleSettles ==
    /\ route = "prices" /\ pc = "await_single" /\ singleSlot = Pending
    /\ \E resp \in EquityResponses :
        LET price == fetchStockPriceV8(query.symbol, resp)
        IN /\ singleSlot' = price
           /\ response' = IF price = Rejected THEN [status |-> 500, source |-> "prices"]
                          ELSE IF price = Null THEN [status |-> 404, source |-> "prices"]
                          ELSE [status |-> 200, source |-> "prices", price |-> price]
    /\ pc' = "done"
    /\ UNCHANGED <<fmPc, fmPath, fmStocks, fmFunds, fmI, fmStockSlots, fmFundSlots, fmResults>>
    /\ UNCHANGED <<reqVars, priceVars, navVars, rateVars>>
    /\ UNCHANGED <<sheets, savedCount>>

\* const prices = await fetchMultipleStockPrices(symbolList) resumes
PricesRespond ==
    /\ route = "prices" /\ pc = "await_prices"
    /\ fmPc \in {"returned", "threw"}
    /\ response' = IF fmPc = "threw" THEN [status |-> 500, source |-> "prices"]
                   ELSE [status |-> 200, source |-> "prices", prices |-> fmResults]
    /\ pc' = "done"
    /\ UNCHANGED <<reqVars, priceVars, fmVars, navVars, rateVars>>
    /\ UNCHANGED <<sheets, savedCount>>

-----------------------------------------------------------------------------
(* The portfolio route GET: reading the holdings, the live stage           *)

\* the answer to a failed request and to an empty holdings sheet
ErrorResponse == [status |-> 500, source |-> "error", holdings |-> <<>>, exchangeRate |-> 150]
EmptyResponse == [status |-> 200, source |-> "empty", holdings |-> <<>>, exchangeRate |-> 150]

\* holdings.filter(h => h.category !== 'mutual_fund'), holdings.filter(h => h.category === 'mutual_fund')
StockHoldings(hs) == LET Keep(h) == h.category # "mutual_fund" IN SelectSeq(hs, Keep)
MutualFundHoldings(hs) == LET Keep(h) == h.category = "mutual_fund" IN SelectSeq(hs, Keep)

\* [...new Set(list)]: the first occurrences, in order
RECURSIVE Dedupe(_, _)
Dedupe(list, seen) ==
    IF list = <<>> THEN <<>>
    ELSE IF Head(list) \in seen THEN Dedupe(Tail(list), seen)
    ELSE <<Head(list)>> \o Dedupe(Tail(list), seen \cup {Head(list)})

\* const uniqueNormalizedSymbols = [...new Set(symbolToNormalized.values())]
UniqueNormalizedSymbols(stockHoldings) ==
    Dedupe([j \in DOMAIN stockHoldings |-> normalizeSymbolForPriceLookup(stockHoldings[j].symbol)], {})

\* 1. const rawHoldings = await getHoldings() (v2: with getTransactions()) resumes
ReadHoldings ==
    /\ route = "portfolio" /\ pc = "start"
    /\ \E sheet \in Portfolios, holdingsOk \in BOOLEAN, transactionsOk \in BOOLEAN :
        IF ~holdingsOk \/ (variant = "v2" /\ ~transactionsOk)
        THEN /\ response' = ErrorResponse
             /\ pc' = "done"
             /\ UNCHANGED <<holdings, priceSource, tiers>>
        ELSE IF sheet = <<>>
        THEN /\ response' = EmptyResponse
             /\ pc' = "done"
             /\ UNCHANGED <<holdings, priceSource, tiers>>
        ELSE /\ holdings' = sheet
             /\ priceSource' = "yahoo_finance"
             /\ tiers' = <<"live">>
             /\ pc' = "live_stocks"
             /\ UNCHANGED response
    /\ UNCHANGED <<variant, route, query, prices, previousCloseMap, cacheRead, stockQuotes>>
    /\ UNCHANGED <<fmVars, navVars, rateVars>>
    /\ UNCHANGED <<sheets, savedCount>>

\* 2a. if (stockHoldings.length > 0) ... await fetchMultipleStockPrices(uniqueNormalizedSymbols)
LiveStocksBegin ==
    /\ route = "portfolio" /\ pc = "live_stocks"
    /\ IF StockHoldings(holdings) # <<>>
       THEN /\ FmCall(UniqueNormalizedSymbols(StockHoldings(holdings)))
            /\ pc' = "await_stocks"
       ELSE /\ pc' = "live_funds"
            /\ UNCHANGED <<fmPc, fmPath, fmStocks, fmFunds, fmI, fmStockSlots, fmFundSlots, fmResults>>
    /\ UNCHANGED <<singleSlot, reqVars, priceVars, navVars, rateVars, response>>
    /\ UNCHANGED <<sheets, savedCount>>

\* the key under which the quote of a stock holding is looked up in stockQuotes
StockQuoteKey(h) == normalizeSymbolForPriceLookup(h.symbol)

\* stockHoldings.forEach(h => { const quote = stockQuotes.get(normalized); if (quote) ... })
RECURSIVE MapStockQuotes(_, _, _)
MapStockQuotes(acc, stockHoldings, quotes) ==
    IF stockHoldings = <<>> THEN acc
    ELSE LET h == Head(stockHoldings)
             key == StockQuoteKey(h)
         IN MapStockQuotes(
                IF key \in DOMAIN quotes
                THEN [p |-> MapSet(acc.p, h.symbol, [price |-> quotes[key].price,
                                                     currency |-> quotes[key].currency]),
                      c |-> MapSet(acc.c, h.symbol, quotes[key].previousClose)]
                ELSE acc,
                Tail(stockHoldings), quotes)

\* const stockQuotes = await fetchMultipleStockPrices(...) resumes (or throws into the catch)
LiveStocksMap ==
    /\ route = "portfolio" /\ pc = "await_stocks"
    /\ fmPc \in {"returned", "threw"}
    /\ IF fmPc = "threw"
       THEN /\ pc' = "cache"
            /\ UNCHANGED <<stockQuotes, prices, previousCloseMap>>
       ELSE LET mapped == MapStockQuotes([p |-> prices, c |-> previousCloseMap],
                                         StockHoldings(holdings), fmResults)
            IN /\ stockQuotes' = fmResults
               /\ prices' = mapped.p
               /\ previousCloseMap' = mapped.c
               /\ pc' = "live_funds"
    /\ UNCHANGED <<priceSource, tiers, cacheRead>>
    /\ UNCHANGED <<reqVars, fmVars, navVars, rateVars, response>>
    /\ UNCHANGED <<sheets, savedCount>>

\* v1: the Map uniqueFundCodes (fundCode -> [symbol1, symbol2, ...]) as its entries in order
RECURSIVE UniqueFundCodes(_, _)
UniqueFundCodes(entries, funds) ==
    IF funds = <<>> THEN entries
    ELSE LET h == Head(funds)
             fundCode == FundCodeOf(h.symbol)
             known == {j \in DOMAIN entries : entries[j].code = fundCode}
         IN UniqueFundCodes(
                IF fundCode = <<>> THEN entries
                ELSE IF known = {}
                THEN Append(entries, [code |-> fundCode, symbols |-> <<h.symbol>>])
                ELSE [j \in DOMAIN entries |->
                        IF j \in known
                        THEN [entries[j] EXCEPT !.symbols = Append(@, h.symbol)]
                        ELSE entries[j]],
                Tail(funds))

\* v2: the fund code the callback of mutualFundHoldings.map finds for a holding, '' if none
FundCodeV2(fund) ==
    IF FundCodeInSymbol(fund.symbol) # <<>> THEN FundCodeInSymbol(fund.symbol)
    ELSE IF FundCodeOf(fund.id) # <<>> THEN FundCodeOf(fund.id)
    ELSE FundCodeOf(fund.symbol)

\* v2: one entry per fund holding
FundEntriesV2(funds) ==
    [j \in DOMAIN funds |-> [code |-> FundCodeV2(funds[j]), symbols |-> <<funds[j].symbol>>]]

\* the callback returned null without fetching (no fund code)
Skipped == [kind |-> "skipped"]

\* 2b. if (mutualFundHoldings.length > 0) ...: up to the first await fetchMutualFundNAV
FundsBegin ==
    /\ route = "portfolio" /\ pc = "live_funds"
    /\ LET funds == MutualFundHoldings(holdings)
           entries == IF variant = "v1" THEN UniqueFundCodes(<<>>, funds) ELSE FundEntriesV2(funds)
       IN /\ navEntries' = entries
          /\ IF variant = "v1"
             THEN /\ navSlots' = [j \in DOMAIN entries |-> IF j = 1 THEN Pending ELSE Idle]
                  /\ navIdx' = 1
                  /\ pc' = IF entries = <<>> THEN "live_decide" ELSE "await_nav"
             ELSE /\ navSlots' = [j \in DOMAIN entries |->
                                    IF entries[j].code # <<>> THEN Pending ELSE Skipped]
                  /\ navIdx' = navIdx
                  /\ pc' = IF funds = <<>> THEN "live_decide" ELSE "await_nav"
    /\ UNCHANGED <<reqVars, priceVars, fmVars, rateVars, response>>
    /\ UNCHANGED <<sheets, savedCount>>

\* v1: if (navData) for (const sym of holdingSymbols) { prices.set(sym, ...); previousCloseMap.set(...) }
RECURSIVE MapNavData(_, _, _)
MapNavData(acc, navData, holdingSymbols) ==
    IF holdingSymbols = <<>> \/ ~IsQuote(navData) THEN acc
    ELSE MapNavData([p |-> MapSet(acc.p, Head(holdingSymbols),
                                  [price |-> navData.price, currency |-> "JPY"]),
                     c |-> MapSet(acc.c, Head(holdingSymbols), navData.previousClose)],
                    navData, Tail(holdingSymbols))

\* v2: return { symbol: fund.symbol, ...navData }: the properties of navData, symbol
\* among them, come after symbol: fund.symbol and replace it; spreading null adds none
SpreadNavData(fundSymbol, navData) ==
    IF IsQuote(navData)
    THEN [symbol |-> navData.symbol, price |-> navData.price, previousClose |-> navData.previousClose]
    ELSE [symbol |-> fundSymbol, price |-> undefined, previousClose |-> undefined]

\* v2: results.forEach(res => { if (res) { prices.set(res.symbol, ...); previousCloseMap.set(...) } })
RECURSIVE MapNavResults(_, _, _, _)
MapNavResults(acc, entries, slots, j) ==
    IF j > Len(entries) THEN acc
    ELSE LET res == SpreadNavData(entries[j].symbols[1], slots[j])
         IN MapNavResults(
                IF slots[j].kind \in {"skipped", "rejected"} THEN acc
                ELSE [p |-> MapSet(acc.p, res.symbol, [price |-> res.price, currency |-> "JPY"]),
                      c |-> MapSet(acc.c, res.symbol, OrElse(res.previousClose, 0))],
                entries, slots, j + 1)

\* one await fetchMutualFundNAV(fundCode) settles
NavSettles ==
    /\ route = "portfolio" /\ pc = "await_nav"
    /\ \E j \in DOMAIN navSlots, resp \in FundResponses :
        /\ navSlots[j] = Pending
        /\ LET navData == fetchMutualFundNAV(navEntries[j].code, resp)
               mapped == MapNavData([p |-> prices, c |-> previousCloseMap], navData,
                                    navEntries[j].symbols)
           IN IF variant = "v1"
              THEN /\ prices' = mapped.p
                   /\ previousCloseMap' = mapped.c
                   /\ navSlots' = [k \in DOMAIN navSlots |->
                                     IF k = j THEN navData
                                     ELSE IF k = j + 1 THEN Pending ELSE navSlots[k]]
                   /\ navIdx' = IF j < Len(navEntries) THEN j + 1 ELSE navIdx
                   /\ pc' = IF j < Len(navEntries) THEN "await_nav" ELSE "live_decide"
              ELSE /\ navSlots' = [navSlots EXCEPT ![j] = navData]
                   /\ UNCHANGED <<prices, previousCloseMap, navIdx, pc>>
    /\ UNCHANGED <<priceSource, tiers, cacheRead, stockQuotes, navEntries>>
    /\ UNCHANGED <<reqVars, fmVars, rateVars, response>>
    /\ UNCHANGED <<sheets, savedCount>>

\* v2: const results = await Promise.all(mutualFundHoldings.map(...)) resumes
FundsJoin ==
    /\ route = "portfolio" /\ pc = "await_nav" /\ variant = "v2"
    /\ \A j \in DOMAIN navSlots : navSlots[j] # Pending
    /\ LET mapped == MapNavResults([p |-> prices, c |-> previousCloseMap], navEntries, navSlots, 1)
       IN /\ prices' = mapped.p
          /\ previousCloseMap' = mapped.c
    /\ pc' = "live_decide"
    /\ UNCHANGED <<priceSource, tiers, cacheRead, stockQuotes>>
    /\ UNCHANGED <<reqVars, fmVars, navVars, rateVars, response>>
    /\ UNCHANGED <<sheets, savedCount>>

-----------------------------------------------------------------------------
(* The portfolio route GET: the fallback tiers                             *)

\* variant of the size test: the live stage is given up as soon as one holding has no price
NoPriceData_AnyMissing(p) == \E j \in DOMAIN holdings : holdings[j].symbol \notin DOMAIN p

\* if (prices.size === 0) throw new Error('No price data obtained from any source')
NoPriceData(p) == DOMAIN p = {}

\* holdings.forEach / for (const h of holdings): prices.set(h.symbol, {price: h.avgCost, ...}),
\* for every holding (onlyMissing = FALSE) or if (!prices.has(h.symbol)) (onlyMissing = TRUE)
RECURSIVE SetAvgCost(_, _, _)
SetAvgCost(p, hs, onlyMissing) ==
    IF hs = <<>> THEN p
    ELSE SetAvgCost(IF onlyMissing /\ Head(hs).symbol \in DOMAIN p THEN p
                    ELSE MapSet(p, Head(hs).symbol,
                                [price |-> Head(hs).avgCost, currency |-> Head(hs).currency]),
                    Tail(hs), onlyMissing)

\* the end of the try block of the live stage: throw, or patch the holdings without a price
LiveDecide ==
    /\ route = "portfolio" /\ pc = "live_decide"
    /\ IF NoPriceData(prices)
       THEN /\ pc' = "cache"
            /\ UNCHANGED prices
       ELSE /\ prices' = SetAvgCost(prices, holdings, TRUE)
            /\ pc' = "rate_primary"
    /\ UNCHANGED <<previousCloseMap, priceSource, tiers, cacheRead, stockQuotes>>
    /\ UNCHANGED <<reqVars, fmVars, navVars, rateVars, response>>
    /\ UNCHANGED <<sheets, savedCount>>

\* rows of the price_history sheet (below its header): date, symbol, price, currency
PriceRow(date, symbol, price, currency) ==
    [date |-> date, symbol |-> symbol, price |-> price, currency |-> currency]
RowUniverse ==
    { PriceRow(1, S_7203T, 7, "JPY"), PriceRow(2, S_7203T, 8, "JPY"),
      PriceRow(1, S_ghq_dist, 9, "JPY") }
PriceHistories == SeqsUpTo(RowUniverse, MaxRows)

\* variant that keeps the row appended last, whatever its date
RECURSIVE LatestRows_LastAppended(_, _)
LatestRows_LastAppended(priceMap, rows) ==
    IF rows = <<>> THEN priceMap
    ELSE LET row == Head(rows)
         IN LatestRows_LastAppended(
                MapSet(priceMap, row.symbol,
                       [price |-> OrElse(row.price, 0), currency |-> row.currency,
                        date |-> row.date]),
                Tail(rows))

\* export async function getLatestPrices(): the map built from the rows read
RECURSIVE LatestRows(_, _)
LatestRows(priceMap, rows) ==
    IF rows = <<>> THEN priceMap
    ELSE LET row == Head(rows)
         IN LatestRows(
                IF row.symbol \notin DOMAIN priceMap \/ row.date > priceMap[row.symbol].date
                THEN MapSet(priceMap, row.symbol,
                            [price |-> OrElse(row.price, 0), currency |-> row.currency,
                             date |-> row.date])
                ELSE priceMap,
                Tail(rows))
getLatestPrices(rows) ==
    [k \in DOMAIN LatestRows(EmptyMap, rows) |->
        [price |-> LatestRows(EmptyMap, rows)[k].price,
         currency |-> LatestRows(EmptyMap, rows)[k].currency]]

\* variant without the inner try/catch: a failed read of the price history leaves
\* the handler through the catch of GET
CacheRead_Uncaught ==
    /\ route = "portfolio" /\ pc = "cache"
    /\ \E readOk \in BOOLEAN, rows \in PriceHistories :
        IF readOk
        THEN /\ prices' = getLatestPrices(rows)
             /\ priceSource' = "google_sheets_cache"
             /\ cacheRead' = "ok"
             /\ tiers' = Append(tiers, "cache")
             /\ pc' = "rate_primary"
             /\ UNCHANGED response
        ELSE /\ cacheRead' = "failed"
             /\ tiers' = Append(tiers, "cache")
             /\ response' = ErrorResponse
             /\ pc' = "done"
             /\ UNCHANGED <<prices, priceSource>>
    /\ UNCHANGED <<previousCloseMap, stockQuotes>>
    /\ UNCHANGED <<reqVars, fmVars, navVars, rateVars>>
    /\ UNCHANGED <<sheets, savedCount>>

\* catch (priceError): prices = await getLatestPrices() resumes, or throws into the inner catch
CacheRead ==
    /\ route = "portfolio" /\ pc = "cache"
    /\ \E readOk \in BOOLEAN, rows \in PriceHistories :
        IF readOk
        THEN /\ prices' = getLatestPrices(rows)
             /\ priceSource' = "google_sheets_cache"
             /\ cacheRead' = "ok"
             /\ tiers' = Append(tiers, "cache")
        ELSE /\ prices' = SetAvgCost(prices, holdings, FALSE)
             /\ priceSource' = "avg_cost_fallback"
             /\ cacheRead' = "failed"
             /\ tiers' = tiers \o <<"cache", "costbasis">>
    /\ pc' = "rate_primary"
    /\ UNCHANGED <<previousCloseMap, stockQuotes>>
    /\ UNCHANGED <<reqVars, fmVars, navVars, rateVars, response>>
    /\ UNCHANGED <<sheets, savedCount>>

-----------------------------------------------------------------------------
(* fetchUsdJpyRate, fetchFromAlternativeApi                                *)

NoResponse == [kind |-> "none"]

\* answers of api.exchangerate.host
PrimaryResponses ==
    { [kind |-> "notok"],
      [kind |-> "throw"],       \* fetch rejects, or response.json() does (malformed payload)
      [kind |-> "ok", success |-> TRUE, JPY |-> 148],
      [kind |-> "ok", success |-> TRUE, JPY |-> undefined],
      [kind |-> "ok", success |-> FALSE, JPY |-> 148] }

\* answers of api.frankfurter.app
SecondaryResponses ==
    { [kind |-> "notok"],
      [kind |-> "throw"],
      [kind |-> "ok", JPY |-> 152],
      [kind |-> "ok", JPY |-> undefined] }

RateData(rate, source) == [kind |-> "rate", rate |-> rate, source |-> source]

\* variant: a non-OK answer of the primary returns null without asking the secondary
fetchUsdJpyRate_NoAlternative(resp) ==
    IF resp.kind = "throw" THEN [kind |-> "alt_catch"]
    ELSE IF resp.kind = "notok" THEN Null
    ELSE IF resp.success /\ Truthy(resp.JPY) THEN RateData(resp.JPY, "exchangerate.host")
    ELSE [kind |-> "alt_try"]

\* fetchUsdJpyRate on the answer of the primary: its return value, or where it calls
\* fetchFromAlternativeApi from ("alt_try": inside the try, "alt_catch": in the catch)
fetchUsdJpyRate(resp) ==
    IF resp.kind = "throw" THEN [kind |-> "alt_catch"]
    ELSE IF resp.kind = "notok" THEN [kind |-> "alt_try"]
    ELSE IF resp.success /\ Truthy(resp.JPY) THEN RateData(resp.JPY, "exchangerate.host")
    ELSE [kind |-> "alt_try"]

\* variant without the try/catch: an exception of the secondary leaves the function
fetchFromAlternativeApi_Uncaught(resp) ==
    IF resp.kind = "throw" THEN Rejected
    ELSE IF resp.kind = "notok" THEN Null
    ELSE IF Truthy(resp.JPY) THEN RateData(resp.JPY, "frankfurter.app")
    ELSE Null

\* async function fetchFromAlternativeApi(): its return value on the answer of the secondary
fetchFromAlternativeApi(resp) ==
    IF resp.kind = "throw" THEN Null
    ELSE IF resp.kind = "notok" THEN Null
    ELSE IF Truthy(resp.JPY) THEN RateData(resp.JPY, "frankfurter.app")
    ELSE Null

\* let usdJpyRate = 150; let exchangeRateSource = 'default'; if (rateData) { ... }
RateOf(rateData) == IF rateData.kind = "rate" THEN rateData.rate ELSE 150
RateSourceOf(rateData) == IF rateData.kind = "rate" THEN rateData.source ELSE "default"

-----------------------------------------------------------------------------
(* Valuation: calculateHoldingsValue, generatePortfolioSummary, the response *)

\* a quotient of two amounts, kept exact as numerator and denominator: (n / d) * 100
Percentage(n, d) == [num |-> n * 100, den |-> d]
\* the number 0 as a quotient
ZeroPercentage == [num |-> 0, den |-> 1]

\* prices.get(symbol)?.price
PriceIn(p, symbol) == IF symbol \in DOMAIN p THEN p[symbol].price ELSE undefined

\* a conversion that leaves the USD amount as it is
convertUsdToJpy_Unconverted(usdAmount, rate) == usdAmount

\* export function convertUsdToJpy(usdAmount, rate)
convertUsdToJpy(usdAmount, rate) == usdAmount * rate

\* holding.currency === 'USD' ? convertUsdToJpy(amount, usdJpyRate) : amount
ToJPY(amount, currency, rate) == IF currency = "USD" THEN convertUsdToJpy(amount, rate) ELSE amount

\* the callback of holdings.map in calculateHoldingsValue
EnrichHolding(holding, p) ==
    LET currentPrice == OrElse(PriceIn(p, holding.symbol), holding.avgCost)
        totalValue == currentPrice * holding.quantity
        costBasis == holding.avgCost * holding.quantity
    IN [id |-> holding.id, symbol |-> holding.symbol, category |-> holding.category,
        quantity |-> holding.quantity, avgCost |-> holding.avgCost,
        currency |-> holding.currency,
        currentPrice |-> currentPrice, totalValue |-> totalValue,
        unrealizedPL |-> totalValue - costBasis,
        unrealizedPLPercent |-> IF costBasis > 0 THEN Percentage(totalValue - costBasis, costBasis)
                                ELSE ZeroPercentage]

RECURSIVE SumJPY(_, _)
SumJPY(amounts, rate) ==
    IF amounts = <<>> THEN 0
    ELSE ToJPY(Head(amounts).amount, Head(amounts).currency, rate) + SumJPY(Tail(amounts), rate)

\* export function calculateHoldingsValue(holdings, prices, usdJpyRate)
calculateHoldingsValue(hs, p, rate) ==
    LET enriched == [j \in DOMAIN hs |-> EnrichHolding(hs[j], p)]
    IN [holdings |-> enriched,
        totalJPY |-> SumJPY([j \in DOMAIN hs |-> [amount |-> enriched[j].totalValue,
                                                   currency |-> hs[j].currency]], rate)]

\* variant that sets the category to the value of the holding, dropping what it had
RECURSIVE CategoryTotals_Overwrites(_, _, _, _)
CategoryTotals_Overwrites(totals, hs, p, rate) ==
    IF hs = <<>> THEN totals
    ELSE LET holding == Head(hs)
             currentPrice == OrElse(PriceIn(p, holding.symbol), holding.avgCost)
             valueJPY == ToJPY(currentPrice * holding.quantity, holding.currency, rate)
             known == {j \in DOMAIN totals : totals[j].category = holding.category}
         IN CategoryTotals_Overwrites(
                IF known = {}
                THEN Append(totals, [category |-> holding.category, value |-> valueJPY])
                ELSE [j \in DOMAIN totals |->
                        IF j \in known THEN [totals[j] EXCEPT !.value = valueJPY]
                        ELSE totals[j]],
                Tail(hs), p, rate)

\* holdings.forEach(holding => { ...; categoryTotals.set(holding.category, existing + valueJPY) }):
\* the entries of the Map categoryTotals in their insertion order
RECURSIVE CategoryTotals(_, _, _, _)
CategoryTotals(totals, hs, p, rate) ==
    IF hs = <<>> THEN totals
    ELSE LET holding == Head(hs)
             currentPrice == OrElse(PriceIn(p, holding.symbol), holding.avgCost)
             valueJPY == ToJPY(currentPrice * holding.quantity, holding.currency, rate)
             known == {j \in DOMAIN totals : totals[j].category = holding.category}
         IN CategoryTotals(
                IF known = {}
                THEN Append(totals, [category |-> holding.category, value |-> valueJPY])
                ELSE [j \in DOMAIN totals |->
                        IF j \in known THEN [totals[j] EXCEPT !.value = @ + valueJPY]
                        ELSE totals[j]],
                Tail(hs), p, rate)

\* a total that stops after the first category
GrandTotal_FirstOnly(totals) == IF totals = <<>> THEN 0 ELSE Head(totals).value

\* Array.from(categoryTotals.values()).reduce((a, b) => a + b, 0)
RECURSIVE GrandTotal(_)
GrandTotal(totals) == IF totals = <<>> THEN 0 ELSE Head(totals).value + GrandTotal(Tail(totals))

\* summaries.sort((a, b) => b.value - a.value): by value descending, equal values in order
RECURSIVE SortByValueDesc(_)
SortByValueDesc(summaries) ==
    IF summaries = <<>> THEN <<>>
    ELSE LET first == CHOOSE j \in DOMAIN summaries :
                        /\ \A k \in DOMAIN summaries : summaries[k].value <= summaries[j].value
                        /\ \A k \in 1..(j - 1) : summaries[k].value < summaries[j].value
             rest == [k \in 1..(Len(summaries) - 1) |->
                        IF k < first THEN summaries[k] ELSE summaries[k + 1]]
         IN <<summaries[first]>> \o SortByValueDesc(rest)

\* export function generateCategorySummary(holdings, otherAssets, prices, usdJpyRate),
\* with no other assets
generateCategorySummary(hs, p, rate) ==
    LET categoryTotals == CategoryTotals(<<>>, hs, p, rate)
        grandTotal == GrandTotal(categoryTotals)
    IN SortByValueDesc(
           [j \in DOMAIN categoryTotals |->
               [category |-> categoryTotals[j].category,
                value |-> categoryTotals[j].value,
                valueJPY |-> categoryTotals[j].value,
                percentage |-> IF grandTotal > 0
                               THEN Percentage(categoryTotals[j].value, grandTotal)
                               ELSE ZeroPercentage]])

\* previous prices that repeat the current quotes
PreviousPrices_CurrentOnly(p, closes) == p

\* 6. previousPrices: prices.forEach((priceData, symbol) => previousPrices.set(symbol, ...))
PreviousPrices(p, closes) ==
    [symbol \in DOMAIN p |->
        [price |-> OrElse(IF symbol \in DOMAIN closes THEN closes[symbol] ELSE undefined,
                          p[symbol].price),
         currency |-> p[symbol].currency]]

\* a cost basis that adds the costs up without converting the USD ones
TotalCostBasis_Unconverted(enriched, rate) ==
    SumJPY([j \in DOMAIN enriched |->
               [amount |-> enriched[j].avgCost * enriched[j].quantity, currency |-> "JPY"]], rate)

\* const totalCostBasis = enrichedHoldings.reduce((sum, h) => sum + costJPY, 0)
TotalCostBasis(enriched, rate) ==
    SumJPY([j \in DOMAIN enriched |->
               [amount |-> enriched[j].avgCost * enriched[j].quantity,
                currency |-> enriched[j].currency]], rate)

\* export function generatePortfolioSummary(...), with no other assets
generatePortfolioSummary(hs, p, previous, rate) ==
    LET current == calculateHoldingsValue(hs, p, rate)
        totalValue == current.totalJPY
        previousDayValue == calculateHoldingsValue(hs, previous, rate).totalJPY
        totalCostBasis == TotalCostBasis(current.holdings, rate)
        totalUnrealizedPL == current.totalJPY - totalCostBasis
    IN [totalValue |-> totalValue, totalValueJPY |-> totalValue,
        previousDayValue |-> previousDayValue,
        dayChange |-> totalValue - previousDayValue,
        totalUnrealizedPL |-> totalUnrealizedPL,
        totalUnrealizedPLPercent |-> IF totalCostBasis > 0
                                     THEN Percentage(totalUnrealizedPL, totalCostBasis)
                                     ELSE ZeroPercentage]

\* variant of the callback that falls back to avgCost only when the price is absent
\* (priceData?.price ?? h.avgCost), keeping a price of 0
HoldingWithPrice_KeepsZero(h, p, closes) ==
    LET currentPrice == IF PriceIn(p, h.symbol) # undefined THEN PriceIn(p, h.symbol) ELSE h.avgCost
        prevClose == OrElse(IF h.symbol \in DOMAIN closes THEN closes[h.symbol] ELSE undefined,
                            currentPrice)
    IN [id |-> h.id, symbol |-> h.symbol, category |-> h.category,
        quantity |-> h.quantity, avgCost |-> h.avgCost, currency |-> h.currency,
        currentPrice |-> currentPrice,
        totalValue |-> currentPrice * h.quantity,
        unrealizedPL |-> (currentPrice - h.avgCost) * h.quantity,
        unrealizedPLPercent |-> IF h.avgCost > 0 THEN Percentage(currentPrice - h.avgCost, h.avgCost)
                                ELSE ZeroPercentage,
        dayChange |-> IF variant = "v2" THEN (currentPrice - prevClose) * h.quantity ELSE 0]

\* 8. holdingsWithPrices: the callback of enrichedHoldings.map in GET
HoldingWithPrice(h, p, closes) ==
    LET currentPrice == OrElse(PriceIn(p, h.symbol), h.avgCost)
        prevClose == OrElse(IF h.symbol \in DOMAIN closes THEN closes[h.symbol] ELSE undefined,
                            currentPrice)
    IN [id |-> h.id, symbol |-> h.symbol, category |-> h.category,
        quantity |-> h.quantity, avgCost |-> h.avgCost, currency |-> h.currency,
        currentPrice |-> currentPrice,
        totalValue |-> currentPrice * h.quantity,
        unrealizedPL |-> (currentPrice - h.avgCost) * h.quantity,
        unrealizedPLPercent |-> IF h.avgCost > 0 THEN Percentage(currentPrice - h.avgCost, h.avgCost)
                                ELSE ZeroPercentage,
        dayChange |-> IF variant = "v2" THEN (currentPrice - prevClose) * h.quantity ELSE 0]

\* 4. to 8. and return NextResponse.json({...}): the body of the answer
PortfolioResponse(rate, rateSource) ==
    LET valued == calculateHoldingsValue(holdings, prices, rate)
        previousPrices == PreviousPrices(prices, previousCloseMap)
    IN [status |-> 200, source |-> "live",
        holdings |-> [j \in DOMAIN holdings |->
                        HoldingWithPrice(valued.holdings[j], prices, previousCloseMap)],
        summary |-> generatePortfolioSummary(holdings, prices, previousPrices, rate),
        categories |-> generateCategorySummary(holdings, prices, rate),
        exchangeRate |-> rate,
        exchangeRateSource |-> rateSource,
        priceSource |-> priceSource,
        totalValueJPY |-> valued.totalJPY]

\* 3. fetchUsdJpyRate(): the request to the primary provider and its answer; when the
\* function returns, GET runs on to its return without another await
RatePrimary ==
    /\ route = "portfolio" /\ pc = "rate_primary"
    /\ \E resp \in PrimaryResponses :
        LET r == fetchUsdJpyRate(resp)
        IN /\ primaryResp' = resp
           /\ primaryCalls' = primaryCalls + 1
           /\ usdJpyRate' = RateOf(r)
           /\ exchangeRateSource' = RateSourceOf(r)
           /\ IF r.kind \in {"alt_try", "alt_catch"}
              THEN /\ pc' = r.kind
                   /\ UNCHANGED response
              ELSE /\ pc' = "done"
                   /\ response' = PortfolioResponse(RateOf(r), RateSourceOf(r))
    /\ UNCHANGED <<secondaryResp, secondaryCalls>>
    /\ UNCHANGED <<reqVars, priceVars, fmVars, navVars>>
    /\ UNCHANGED <<sheets, savedCount>>

\* variant that asks the secondary provider again when it gave no rate (up to 3 calls)
RateSecondary_Retries ==
    /\ route = "portfolio" /\ pc \in {"alt_try", "alt_catch"}
    /\ \E resp \in SecondaryResponses :
        LET r == fetchFromAlternativeApi(resp)
        IN /\ secondaryResp' = resp
           /\ secondaryCalls' = secondaryCalls + 1
           /\ usdJpyRate' = RateOf(r)
           /\ exchangeRateSource' = RateSourceOf(r)
           /\ IF r.kind # "rate" /\ secondaryCalls < 2
              THEN UNCHANGED <<pc, response>>
              ELSE /\ pc' = "done"
                   /\ response' = PortfolioResponse(RateOf(r), RateSourceOf(r))
    /\ UNCHANGED <<primaryResp, primaryCalls>>
    /\ UNCHANGED <<reqVars, priceVars, fmVars, navVars>>
    /\ UNCHANGED <<sheets, savedCount>>

\* fetchFromAlternativeApi(): the request to the secondary provider and its answer.
\* An exception out of it is caught by the catch of fetchUsdJpyRate when the call is
\* the one inside its try, and by the catch of GET otherwise.
RateSecondary ==
    /\ route = "portfolio" /\ pc \in {"alt_try", "alt_catch"}
    /\ \E resp \in SecondaryResponses :
        LET r == fetchFromAlternativeApi(resp)
        IN /\ secondaryResp' = resp
           /\ secondaryCalls' = secondaryCalls + 1
           /\ usdJpyRate' = RateOf(r)
           /\ exchangeRateSource' = RateSourceOf(r)
           /\ IF r = Rejected /\ pc = "alt_try"
              THEN /\ pc' = "alt_catch"
                   /\ UNCHANGED response
              ELSE /\ pc' = "done"
                   /\ response' = PortfolioResponse(RateOf(r), RateSourceOf(r))
    /\ UNCHANGED <<primaryResp, primaryCalls>>
    /\ UNCHANGED <<reqVars, priceVars, fmVars, navVars>>
    /\ UNCHANGED <<sheets, savedCount>>

-----------------------------------------------------------------------------
(* Specifications                                                          *)

NoQuery == [symbol |-> <<>>, symbols |-> <<>>]

InitCommon ==
    /\ pc = "start"
    /\ holdings = <<>>
    /\ prices = EmptyMap /\ previousCloseMap = EmptyMap
    /\ priceSource = "unset" /\ tiers = <<>> /\ cacheRead = "none"
    /\ stockQuotes = EmptyMap
    /\ fmPc = "idle" /\ fmPath = "stocks" /\ fmStocks = <<>> /\ fmFunds = <<>> /\ fmI = 0
    /\ fmStockSlots = <<>> /\ fmFundSlots = <<>> /\ fmResults = EmptyMap
    /\ singleSlot = Idle
    /\ navEntries = <<>> /\ navSlots = <<>> /\ navIdx = 0
    /\ primaryResp = NoResponse /\ secondaryResp = NoResponse
    /\ primaryCalls = 0 /\ secondaryCalls = 0
    /\ usdJpyRate = undefined /\ exchangeRateSource = "unset"
    /\ sheets = [price_history |-> <<>>, exchange_rates |-> <<>>] /\ savedCount = 0
    /\ response = [status |-> 0, source |-> "none"]

\* a request to the portfolio route
Init ==
    /\ route = "portfolio"
    /\ variant \in {"v1", "v2"}
    /\ query = NoQuery
    /\ InitCommon

Next ==
    \/ ReadHoldings
    \/ LiveStocksBegin
    \/ FmFetchSettles
    \/ FmJoin
    \/ FmPauseEnds
    \/ LiveStocksMap
    \/ FundsBegin
    \/ NavSettles
    \/ FundsJoin
    \/ LiveDecide
    \/ CacheRead
    \/ RatePrimary
    \/ RateSecondary

Spec == Init /\ [][Next]_vars

\* the steps at which GET resumes with the quotes of fetchMultipleStockPrices, and with
\* the answer of the secondary rate provider, can be taken
LiveStocksMapEnabled ==
    route = "portfolio" /\ pc = "await_stocks" /\ fmPc \in {"returned", "threw"}
RateSecondaryEnabled ==
    route = "portfolio" /\ pc \in {"alt_try", "alt_catch"}

\* the portfolio request when every awaited call settles and the handler resumes after
\* each await: a step that stays possible is eventually taken.  For LiveStocksMap and
\* RateSecondary weak fairness is written out, WF_vars(A) being
\* []<>~(ENABLED <<A>>_vars) \/ []<><<A>>_vars, with their guards for ENABLED.
FairSpec ==
    /\ Spec
    /\ WF_vars(ReadHoldings \/ LiveStocksBegin \/ FmFetchSettles \/ FmJoin \/ FmPauseEnds
                 \/ FundsBegin \/ NavSettles \/ FundsJoin \/ LiveDecide \/ CacheRead
                 \/ RatePrimary)
    /\ ([]<>(~LiveStocksMapEnabled) \/ []<><<LiveStocksMap>>_vars)
    /\ ([]<>(~RateSecondaryEnabled) \/ []<><<RateSecondary>>_vars)

\* a request to the prices route
InitPrices ==
    /\ route = "prices"
    /\ variant = "none"
    /\ query \in PriceRequests
    /\ InitCommon

NextPrices ==
    \/ PricesBegin
    \/ PricesSingleSettles
    \/ FmFetchSettles
    \/ FmJoin
    \/ FmPauseEnds
    \/ PricesRespond

SpecPrices == InitPrices /\ [][NextPrices]_vars

-----------------------------------------------------------------------------
(* normalizeSymbolForPriceLookup applied to symbols                        *)

\* symbols given to the function: a run of digits or a letter, then a letter or two or
\* none, then a market part, then a tail; and symbols of the holdings
NormalizeInputs ==
    { head \o letter \o market \o tail :
        head \in {<<"1", "3", "0">>, <<"1", "2", "3", "4">>, <<"1", "2", "3", "4", "5">>, <<"A">>},
        letter \in {<<>>, <<"A">>, <<"a">>, <<"A", "B">>},
        market \in {<<>>, <<".", "T">>, <<".", "t">>, <<".">>, <<"T">>, <<".", "O">>},
        tail \in {<<>>, <<"-", "s", "b", "i">>, <<"W">>, <<".", "T">>, <<"-">>} }
    \cup {S_7203T, S_7203Tsbi, S_AAPL, S_ghq_dist, C_0331418A, <<>>}

\* a call of the function on a symbol
InitNormalize ==
    /\ route = "normalize"
    /\ variant = "none"
    /\ query \in {[symbol |-> x, symbols |-> <<>>] : x \in NormalizeInputs}
    /\ InitCommon

\* normalizeSymbolForPriceLookup(symbol), and then the same on its result
NormalizeCall ==
    /\ route = "normalize" /\ pc \in {"start", "once"}
    /\ IF pc = "start"
       THEN /\ response' = [status |-> 200, source |-> "normalize",
                            value |-> normalizeSymbolForPriceLookup(query.symbol),
                            again |-> <<>>]
            /\ pc' = "once"
       ELSE /\ response' = [response EXCEPT !.again = normalizeSymbolForPriceLookup(response.value)]
            /\ pc' = "twice"
    /\ UNCHANGED <<reqVars, priceVars, fmVars, navVars, rateVars>>
    /\ UNCHANGED <<sheets, savedCount>>

NextNormalize == NormalizeCall

SpecNormalize == InitNormalize /\ [][NextNormalize]_vars

-----------------------------------------------------------------------------
(* fetchMutualFundNAV applied to fund pages                                *)

\* what one NAV pattern may capture in a page: nothing, or a run of digits and commas
CaptureUniverse ==
    {NoMatch, <<"0">>, <<",">>, <<"7">>, <<"1", "2", ",", "3", "4", "5">>}

\* the answers of the fund page: failures, and pages told by what the five patterns capture
NavDocuments ==
    { [kind |-> "notok"], [kind |-> "throw"] }
    \cup { [kind |-> "ok", captures |-> c, change |-> d] :
             c \in [1..5 -> CaptureUniverse], d \in {0, 1} }

\* a call of fetchMutualFundNAV whose fetch gets the answer query.doc
InitNav ==
    /\ route = "nav"
    /\ variant = "none"
    /\ query \in {[symbol |-> C_47316169, symbols |-> <<>>, doc |-> d] : d \in NavDocuments}
    /\ InitCommon

\* fetchMutualFundNAV(fundCode) returns
NavCall ==
    /\ route = "nav" /\ pc = "start"
    /\ response' = [status |-> 200, source |-> "nav",
                    result |-> fetchMutualFundNAV(query.symbol, query.doc)]
    /\ pc' = "done"
    /\ UNCHANGED <<reqVars, priceVars, fmVars, navVars, rateVars>>
    /\ UNCHANGED <<sheets, savedCount>>

NextNav == NavCall

SpecNav == InitNav /\ [][NextNav]_vars

-----------------------------------------------------------------------------
(* The valuation steps of GET (4. to 8.) applied to holdings and quote maps   *)

\* rows of the holdings sheet to value (prices and costs in tenths of a currency
\* unit): two rows of one symbol, a USD row, rows with quantity 0 and with avgCost 0
ValuationHoldingUniverse ==
    { Holding(<<"a">>, S_7203T,         "domestic_stock", 2,  1,    "JPY"),
      Holding(<<"b">>, S_7203T,         "domestic_stock", 1,  2,    "JPY"),
      Holding(<<"c">>, S_AAPL,          "us_stock",       50, 1500, "USD"),
      Holding(<<"d">>, S_7203Tsbi,      "domestic_stock", 0,  1,    "JPY"),
      Holding(<<"e">>, S_ghq_dist,      "mutual_fund",    1,  0,    "JPY"),
      Holding(<<"f">>, S_unmapped_fund, "mutual_fund",    0,  0,    "JPY") }

ValuationPortfolios ==
    {l \in SeqsUpTo(ValuationHoldingUniverse, MaxHoldings) :
        l # <<>> /\ \A j, k \in DOMAIN l : j # k => l[j].id # l[k].id}

\* the quote maps at step 4: per symbol no entry (<<>>) or an entry with one of its prices
ValuationPrices ==
    { [symbol \in {x \in {S_7203T, S_AAPL, S_7203Tsbi, S_ghq_dist} :
                     (CASE x = S_7203T -> c[1] [] x = S_AAPL -> c[2]
                        [] x = S_7203Tsbi -> c[3] [] x = S_ghq_dist -> c[4]) # <<>>} |->
          [price |-> (CASE symbol = S_7203T -> c[1] [] symbol = S_AAPL -> c[2]
                        [] symbol = S_7203Tsbi -> c[3] [] symbol = S_ghq_dist -> c[4])[1],
           currency |-> IF symbol = S_AAPL THEN "USD" ELSE "JPY"]] :
        c \in {<<>>, <<0>>, <<3>>} \X {<<>>, <<1825>>} \X {<<>>, <<3>>}
               \X {<<>>, <<undefined>>, <<3>>} }

\* the previous closes recorded with the quotes
ValuationCloses == {EmptyMap, [symbol \in {S_7203T} |-> 2]}

\* GET at step 4, with holdings read, quotes resolved and the rate resolved
InitValuation ==
    /\ route = "valuation"
    /\ variant \in {"v1", "v2"}
    /\ query = NoQuery
    /\ pc = "start"
    /\ holdings \in ValuationPortfolios
    /\ prices \in ValuationPrices
    /\ previousCloseMap \in ValuationCloses
    /\ DOMAIN previousCloseMap \subseteq DOMAIN prices   \* set together with the quote
    /\ priceSource = "yahoo_finance" /\ tiers = <<"live">> /\ cacheRead = "none"
    /\ stockQuotes = EmptyMap
    /\ fmPc = "idle" /\ fmPath = "stocks" /\ fmStocks = <<>> /\ fmFunds = <<>> /\ fmI = 0
    /\ fmStockSlots = <<>> /\ fmFundSlots = <<>> /\ fmResults = EmptyMap
    /\ singleSlot = Idle
    /\ navEntries = <<>> /\ navSlots = <<>> /\ navIdx = 0
    /\ primaryResp = NoResponse /\ secondaryResp = NoResponse
    /\ primaryCalls = 0 /\ secondaryCalls = 0
    /\ \E r \in {RateData(148, "exchangerate.host"), Null} :
        usdJpyRate = RateOf(r) /\ exchangeRateSource = RateSourceOf(r)
    /\ sheets = [price_history |-> <<>>, exchange_rates |-> <<>>] /\ savedCount = 0
    /\ response = [status |-> 0, source |-> "none"]

\* steps 4. to 8. of GET and its return
Valuate ==
    /\ route = "valuation" /\ pc = "start"
    /\ response' = PortfolioResponse(usdJpyRate, exchangeRateSource)
    /\ pc' = "done"
    /\ UNCHANGED <<reqVars, priceVars, fmVars, navVars, rateVars>>
    /\ UNCHANGED <<sheets, savedCount>>

NextValuation == Valuate

SpecValuation == InitValuation /\ [][NextValuation]_vars

-----------------------------------------------------------------------------
(* calculateYearRealizedPL and calculateYearDividends applied to records      *)

\* new Date(date).getFullYear() for a date written YYYY-MM-DD, on a host whose clock is
\* offset hours from UTC: the string is midnight UTC of that day, the year is read
\* on the host's calendar; NaN (here undefined) for any other string
getFullYear(date, offset) ==
    IF /\ Len(date) = 10
       /\ date[5] = "-" /\ date[8] = "-"
       /\ \A k \in {1, 2, 3, 4, 6, 7, 9, 10} : date[k] \in Digits
    THEN LET year == ParseDigits(SubSeq(date, 1, 4), 0)
             month == ParseDigits(SubSeq(date, 6, 7), 0)
             day == ParseDigits(SubSeq(date, 9, 10), 0)
         IN IF offset < 0 /\ month = 1 /\ day = 1 THEN year - 1 ELSE year
    ELSE undefined

\* a total that takes in the purchases of the year as well
RECURSIVE calculateYearRealizedPL_AnyType(_, _, _, _)
calculateYearRealizedPL_AnyType(transactions, year, rate, offset) ==
    IF transactions = <<>> THEN 0
    ELSE LET t == Head(transactions)
             rest == calculateYearRealizedPL_AnyType(Tail(transactions), year, rate, offset)
         IN IF getFullYear(t.date, offset) = year
            THEN ToJPY(OrElse(t.realizedPL, 0), t.currency, rate) + rest
            ELSE rest

\* export function calculateYearRealizedPL(transactions, year, usdJpyRate)
RECURSIVE calculateYearRealizedPL(_, _, _, _)
calculateYearRealizedPL(transactions, year, rate, offset) ==
    IF transactions = <<>> THEN 0
    ELSE LET t == Head(transactions)
             rest == calculateYearRealizedPL(Tail(transactions), year, rate, offset)
         IN IF getFullYear(t.date, offset) = year /\ t.type = "sell"
            THEN ToJPY(OrElse(t.realizedPL, 0), t.currency, rate) + rest
            ELSE rest

\* export function calculateYearDividends(dividends, year, usdJpyRate)
RECURSIVE calculateYearDividends(_, _, _, _)
calculateYearDividends(dividends, year, rate, offset) ==
    IF dividends = <<>> THEN 0
    ELSE LET d == Head(dividends)
             rest == calculateYearDividends(Tail(dividends), year, rate, offset)
         IN IF getFullYear(d.date, offset) = year
            THEN ToJPY(d.amount, d.currency, rate) + rest
            ELSE rest

\* a call of the two functions: rows of the transactions sheet or of the dividends
\* sheet (dates at both ends of three years and an empty date; sales with a gain, a
\* loss, none recorded; a purchase), a year, a rate, and the host's offset from UTC
InitYear ==
    /\ route = "year"
    /\ variant = "none"
    /\ LET dates == { <<"2", "0", "2", "3", "-", "1", "2", "-", "3", "1">>,
                      <<"2", "0", "2", "4", "-", "0", "1", "-", "0", "1">>,
                      <<"2", "0", "2", "4", "-", "1", "2", "-", "3", "1">>,
                      <<"2", "0", "2", "5", "-", "0", "1", "-", "0", "1">>,
                      <<>> }
           transactionRows ==
               { [date |-> date, type |-> kind[1], realizedPL |-> kind[2], currency |-> kind[3]] :
                   date \in dates,
                   kind \in { <<"sell", 5, "JPY">>, <<"sell", -3, "USD">>,
                              <<"sell", undefined, "JPY">>, <<"buy", 7, "USD">> } }
           dividendRows ==
               { [date |-> date, amount |-> paid[1], currency |-> paid[2]] :
                   date \in dates, paid \in { <<4, "JPY">>, <<2, "USD">> } }
       IN \E year \in {2024, 2025}, rate \in {148, 150}, offset \in {-5, 0, 9} :
            \/ \E rows \in SeqsUpTo(transactionRows, MaxRows) :
                 query = [transactions |-> rows, dividends |-> <<>>,
                          year |-> year, rate |-> rate, offset |-> offset]
            \/ \E rows \in SeqsUpTo(dividendRows, MaxRows) \ {<<>>} :
                 query = [transactions |-> <<>>, dividends |-> rows,
                          year |-> year, rate |-> rate, offset |-> offset]
    /\ InitCommon

\* const yearRealizedPL = calculateYearRealizedPL(...); const yearDividends = ...
YearCall ==
    /\ route = "year" /\ pc = "start"
    /\ response' = [status |-> 200, source |-> "year",
                    yearRealizedPL |-> calculateYearRealizedPL(query.transactions, query.year,
                                                               query.rate, query.offset),
                    yearDividends |-> calculateYearDividends(query.dividends, query.year,
                                                             query.rate, query.offset)]
    /\ pc' = "done"
    /\ UNCHANGED <<reqVars, priceVars, fmVars, navVars, rateVars>>
    /\ UNCHANGED <<sheets, savedCount>>

NextYear == YearCall

SpecYear == InitYear /\ [][NextYear]_vars

-----------------------------------------------------------------------------
(* getLatestPrices applied to price histories                                *)

\* a read of the price_history sheet: rows of two symbols on three days, two of them
\* of one symbol on one day, in every order of appending
InitLatest ==
    /\ route = "latest"
    /\ variant = "none"
    /\ LET rowUniverse ==
               { PriceRow(1, S_7203T, 7, "JPY"), PriceRow(2, S_7203T, 8, "JPY"),
                 PriceRow(2, S_7203T, 6, "JPY"), PriceRow(3, S_7203T, 5, "JPY"),
                 PriceRow(1, S_AAPL, 9, "USD"), PriceRow(3, S_AAPL, 4, "USD") }
       IN query \in {[rows |-> rows] : rows \in SeqsUpTo(rowUniverse, MaxRows + 1)}
    /\ InitCommon

\* getLatestPrices() on the rows, and on the same rows appended in the opposite order
LatestCall ==
    /\ route = "latest" /\ pc = "start"
    /\ response' = [status |-> 200, source |-> "latest",
                    latest |-> getLatestPrices(query.rows),
                    opposite |-> getLatestPrices(
                                     [j \in DOMAIN query.rows |->
                                         query.rows[Len(query.rows) + 1 - j]])]
    /\ pc' = "done"
    /\ UNCHANGED <<reqVars, priceVars, fmVars, navVars, rateVars>>
    /\ UNCHANGED <<sheets, savedCount>>

NextLatest == LatestCall

SpecLatest == InitLatest /\ [][NextLatest]_vars

-----------------------------------------------------------------------------
(* The cron route GET: automatic price update                              *)

\* savePriceData(symbol, price, currency, date): the row given to appendToSheet
savePriceData(symbol, price, currency, date) ==
    [date |-> date, symbol |-> symbol, price |-> price, currency |-> currency]

\* saveExchangeRate(rate, date): the row given to appendToSheet
saveExchangeRate(rate, date) == [date |-> date, usdJpy |-> rate]

\* GET up to its second await: the check of the authorization header, then
\* const holdings = await getHoldings() resumes and fetchMultipleStockPrices is
\* called with holdings.map(h => h.symbol)
CronBegin ==
    /\ route = "cron" /\ pc = "start"
    /\ IF ~query.authorized
       THEN /\ response' = [status |-> 401, source |-> "cron"]
            /\ pc' = "done"
            /\ UNCHANGED <<holdings, fmVars>>
       ELSE \E sheet \in Portfolios, holdingsOk \in BOOLEAN :
              IF ~holdingsOk
              THEN /\ response' = [status |-> 500, source |-> "cron"]
                   /\ pc' = "done"
                   /\ UNCHANGED <<holdings, fmVars>>
              ELSE /\ holdings' = sheet
                   /\ FmCall([j \in DOMAIN sheet |-> sheet[j].symbol])
                   /\ pc' = "cron_prices"
                   /\ UNCHANGED <<singleSlot, response>>
    /\ UNCHANGED <<variant, route, query, priceVars, navVars, rateVars>>
    /\ UNCHANGED <<sheets, savedCount>>

\* const prices = await fetchMultipleStockPrices(symbols) resumes (or throws into the
\* catch); the for-of loop calls savePriceData for the first entry, if there is one
CronPricesReturn ==
    /\ route = "cron" /\ pc = "cron_prices"
    /\ fmPc \in {"returned", "threw"}
    /\ IF fmPc = "threw"
       THEN /\ response' = [status |-> 500, source |-> "cron"]
            /\ pc' = "done"
       ELSE /\ pc' = IF fmResults = EmptyMap THEN "cron_rate" ELSE "cron_save"
            /\ UNCHANGED response
    /\ UNCHANGED <<reqVars, priceVars, fmVars, navVars, rateVars>>
    /\ UNCHANGED <<sheets, savedCount>>

\* await savePriceData(symbol, data.price, data.currency, today) resumes: the row is
\* appended and savedCount++, or the append throws into the catch.  The entries of
\* the Map prices come in the order of their first insertion: stocks, then funds.
CronSaveSettles ==
    /\ route = "cron" /\ pc = "cron_save"
    /\ LET InPrices(symbol) == symbol \in DOMAIN fmResults
           entries == SelectSeq(Dedupe(fmStocks \o fmFunds, {}), InPrices)
           symbol == entries[savedCount + 1]
           data == fmResults[symbol]
       IN \E appendOk \in BOOLEAN :
            IF ~appendOk
            THEN /\ response' = [status |-> 500, source |-> "cron"]
                 /\ pc' = "done"
                 /\ UNCHANGED <<sheets, savedCount>>
            ELSE /\ sheets' = [sheets EXCEPT !.price_history =
                                  Append(@, savePriceData(symbol, data.price, data.currency, "today"))]
                 /\ savedCount' = savedCount + 1
                 /\ pc' = IF savedCount + 1 < Len(entries) THEN "cron_save" ELSE "cron_rate"
                 /\ UNCHANGED response
    /\ UNCHANGED <<reqVars, priceVars, fmVars, navVars, rateVars>>

\* variant that saves the fallback rate 150 when no provider gave a rate
CronRate_PersistsDefault ==
    /\ route = "cron" /\ pc = "cron_rate"
    /\ \E resp \in PrimaryResponses, alt \in SecondaryResponses :
        LET r == fetchUsdJpyRate(resp)
            asked == r.kind \in {"alt_try", "alt_catch"}
            rateData == IF asked THEN fetchFromAlternativeApi(alt) ELSE r
        IN /\ primaryResp' = resp
           /\ primaryCalls' = primaryCalls + 1
           /\ secondaryResp' = IF asked THEN alt ELSE secondaryResp
           /\ secondaryCalls' = IF asked THEN secondaryCalls + 1 ELSE secondaryCalls
           /\ usdJpyRate' = RateOf(rateData)
           /\ exchangeRateSource' = RateSourceOf(rateData)
           /\ pc' = "cron_save_rate"
           /\ UNCHANGED response
    /\ UNCHANGED <<reqVars, priceVars, fmVars, navVars>>
    /\ UNCHANGED <<sheets, savedCount>>

\* const rateData = await fetchUsdJpyRate() resumes: the primary provider was asked,
\* and the secondary one when the primary gave no rate; if (rateData) saveExchangeRate
\* is called, otherwise GET returns with exchangeRate null (here undefined)
CronRate ==
    /\ route = "cron" /\ pc = "cron_rate"
    /\ \E resp \in PrimaryResponses, alt \in SecondaryResponses :
        LET r == fetchUsdJpyRate(resp)
            asked == r.kind \in {"alt_try", "alt_catch"}
            rateData == IF asked THEN fetchFromAlternativeApi(alt) ELSE r
        IN /\ primaryResp' = resp
           /\ primaryCalls' = primaryCalls + 1
           /\ secondaryResp' = IF asked THEN alt ELSE secondaryResp
           /\ secondaryCalls' = IF asked THEN secondaryCalls + 1 ELSE secondaryCalls
           /\ IF rateData.kind = "rate"
              THEN /\ usdJpyRate' = rateData.rate
                   /\ exchangeRateSource' = rateData.source
                   /\ pc' = "cron_save_rate"
                   /\ UNCHANGED response
              ELSE /\ pc' = "done"
                   /\ response' = [status |-> 200, source |-> "cron", success |-> TRUE,
                                   updatedSymbols |-> savedCount,
                                   totalSymbols |-> Len(holdings),
                                   exchangeRate |-> undefined]
                   /\ UNCHANGED <<usdJpyRate, exchangeRateSource>>
    /\ UNCHANGED <<reqVars, priceVars, fmVars, navVars>>
    /\ UNCHANGED <<sheets, savedCount>>

\* await saveExchangeRate(rateData.rate, today) resumes: the row is appended and GET
\* returns success, or the append throws into the catch
CronSaveRate ==
    /\ route = "cron" /\ pc = "cron_save_rate"
    /\ \E appendOk \in BOOLEAN :
        IF ~appendOk
        THEN /\ response' = [status |-> 500, source |-> "cron"]
             /\ UNCHANGED sheets
        ELSE /\ sheets' = [sheets EXCEPT !.exchange_rates =
                              Append(@, saveExchangeRate(usdJpyRate, "today"))]
             /\ response' = [status |-> 200, source |-> "cron", success |-> TRUE,
                             updatedSymbols |-> savedCount,
                             totalSymbols |-> Len(holdings),
                             exchangeRate |-> usdJpyRate]
    /\ pc' = "done"
    /\ UNCHANGED <<reqVars, priceVars, fmVars, navVars, rateVars, savedCount>>

\* a request to the cron route, with or without the Bearer secret
InitCron ==
    /\ route = "cron"
    /\ variant = "none"
    /\ query \in {[authorized |-> a] : a \in BOOLEAN}
    /\ InitCommon

NextCron ==
    \/ CronBegin
    \/ FmFetchSettles
    \/ FmJoin
    \/ FmPauseEnds
    \/ CronPricesReturn
    \/ CronSaveSettles
    \/ CronRate
    \/ CronSaveRate

SpecCron == InitCron /\ [][NextCron]_vars

-----------------------------------------------------------------------------
(* Properties of the portfolio request                                     *)

\* the portfolio request has answered with a snapshot (not the error or empty payload)
Answered == route = "portfolio" /\ pc = "done" /\ response.source = "live"

\* the settlement of the live fetch made for holding j: a quote, or Null when the
\* fetch failed or none was made for it
LiveQuoteAt(j) ==
    LET h == holdings[j]
        key == normalizeSymbolForPriceLookup(h.symbol)
        entriesOf == {e \in DOMAIN navEntries : h.symbol \in Range(navEntries[e].symbols)}
        fundIndex == Cardinality({k \in 1..j : holdings[k].category = "mutual_fund"})
        slot == IF variant = "v1"
                THEN IF entriesOf = {} THEN Null ELSE navSlots[CHOOSE e \in entriesOf : TRUE]
                ELSE IF fundIndex \in DOMAIN navSlots THEN navSlots[fundIndex] ELSE Null
    IN IF h.category # "mutual_fund"
       THEN IF key \in DOMAIN stockQuotes THEN stockQuotes[key] ELSE Null
       ELSE IF IsQuote(slot) THEN slot ELSE Null

\* no fetch of the live stage has produced a quote
NoLiveQuote ==
    /\ \A j \in DOMAIN fmStockSlots : ~IsQuote(fmStockSlots[j])
    /\ \A j \in DOMAIN fmFundSlots : ~IsQuote(fmFundSlots[j])
    /\ \A j \in DOMAIN navSlots : ~IsQuote(navSlots[j])

\* the number of quote fetches (chart API calls, fund page fetches) not yet settled
InFlight ==
    Cardinality({j \in DOMAIN fmStockSlots : fmStockSlots[j] = Pending})
    + Cardinality({j \in DOMAIN fmFundSlots : fmFundSlots[j] = Pending})
    + Cardinality({j \in DOMAIN navSlots : navSlots[j] = Pending})
    + (IF singleSlot = Pending THEN 1 ELSE 0)

\* C1: whichever tier supplied the quotes, the quote map handed to the valuation
\* functions has an entry for the symbol of every holding read from the store.
C1_QuoteMapCoversHoldings ==
    Answered => \A j \in DOMAIN holdings : holdings[j].symbol \in DOMAIN prices

\* C2: the tiers are attempted in the order Live, Cache, Cost-basis, each at most once
\* and never going back; the store's latest prices are read only after the live stage
\* threw or ended with no quote (and with no fetch left in flight), and the
\* cost-basis substitution is made only after that read failed.
C2_TiersInOrder ==
    /\ tiers \in {<<>>, <<"live">>, <<"live", "cache">>, <<"live", "cache", "costbasis">>}
    /\ (pc = "cache" \/ Len(tiers) >= 2) => ((fmPc = "threw" \/ NoLiveQuote) /\ InFlight = 0)
    /\ cacheRead # "none" <=> Len(tiers) >= 2
    /\ cacheRead = "failed" <=> Len(tiers) = 3
    /\ Answered => Len(tiers) >= 1

\* C2 witness: a request that went through all three tiers and answered
C2_Witness == Answered /\ tiers = <<"live", "cache", "costbasis">>

\* holding j received the price of a successful live fetch
ReceivedLivePrice(j) ==
    /\ IsQuote(LiveQuoteAt(j))
    /\ holdings[j].symbol \in DOMAIN prices
    /\ prices[holdings[j].symbol].price = LiveQuoteAt(j).price

\* C3: the reported priceSource is the tier used: 'yahoo_finance' only if some holding
\* received a price from a successful live fetch, 'google_sheets_cache' exactly when
\* the live stage yielded no quote and the store read succeeded, 'avg_cost_fallback'
\* exactly when the live stage and the store read both failed.
C3_ReportedTierIsUsed ==
    Answered =>
        /\ response.priceSource = "yahoo_finance" =>
               \E j \in DOMAIN holdings : ReceivedLivePrice(j)
        /\ response.priceSource = "google_sheets_cache" <=> (NoLiveQuote /\ cacheRead = "ok")
        /\ response.priceSource = "avg_cost_fallback" <=> (NoLiveQuote /\ cacheRead = "failed")

\* C4: in the Cost-basis tier every holding is valued at its own average cost:
\* unrealizedPL is 0 for every holding and totalUnrealizedPL is 0.
C4_CostBasisZeroPL ==
    (Answered /\ response.priceSource = "avg_cost_fallback") =>
        /\ \A j \in DOMAIN holdings :
            /\ response.holdings[j].currentPrice = holdings[j].avgCost
            /\ response.holdings[j].unrealizedPL = 0
        /\ response.summary.totalUnrealizedPL = 0

\* C5: in the Live tier a holding without a live quote is valued at its own average
\* cost (unrealizedPL 0), a holding with a live quote keeps it, and the reported tier
\* is the live one.
C5_LivePatchPerHolding ==
    (Answered /\ tiers = <<"live">>) =>
        /\ response.priceSource = "yahoo_finance"
        /\ \A j \in DOMAIN holdings :
            IF IsQuote(LiveQuoteAt(j))
            THEN response.holdings[j].currentPrice = LiveQuoteAt(j).price
            ELSE /\ response.holdings[j].currentPrice = holdings[j].avgCost
                 /\ response.holdings[j].unrealizedPL = 0

\* the primary rate provider answered with a usable rate
PrimaryOk(resp) == resp.kind = "ok" /\ resp.success /\ Truthy(resp.JPY)

\* the secondary rate provider answered with a usable rate
SecondaryOk(resp) == resp.kind = "ok" /\ Truthy(resp.JPY)

\* C6: the rate is resolved by the chain primary, secondary, constant: a usable primary
\* answer gives its rate tagged 'exchangerate.host'; a primary failure of any kind
\* followed by a usable secondary answer gives that rate tagged 'frankfurter.app';
\* when both fail the rate is 150 tagged 'default'; the answered rate is never unset.
C6_RateResolution ==
    /\ Answered =>
        /\ usdJpyRate # undefined
        /\ response.exchangeRate = usdJpyRate
        /\ response.exchangeRateSource = exchangeRateSource
        /\ PrimaryOk(primaryResp) =>
               /\ usdJpyRate = primaryResp.JPY
               /\ exchangeRateSource = "exchangerate.host"
        /\ ~PrimaryOk(primaryResp) =>
               /\ secondaryResp # NoResponse
               /\ IF SecondaryOk(secondaryResp)
                  THEN usdJpyRate = secondaryResp.JPY /\ exchangeRateSource = "frankfurter.app"
                  ELSE usdJpyRate = 150 /\ exchangeRateSource = "default"
    /\ (route = "portfolio" /\ pc = "done") => response.exchangeRate > 0

\* C6 witness: the primary failed and the secondary supplied the answered rate
C6_Witness ==
    /\ Answered
    /\ ~PrimaryOk(primaryResp)
    /\ SecondaryOk(secondaryResp)
    /\ response.exchangeRate = secondaryResp.JPY
    /\ response.exchangeRateSource = "frankfurter.app"

\* C7: resolving the rate contacts the primary exactly once and the secondary at most
\* once, the secondary only after the primary failed; no provider is retried.
C7_RateProvidersOnce ==
    /\ primaryCalls <= 1
    /\ secondaryCalls <= 1
    /\ secondaryCalls = 1 => (primaryCalls = 1 /\ ~PrimaryOk(primaryResp))
    /\ Answered => primaryCalls = 1
    /\ (Answered /\ PrimaryOk(primaryResp)) => secondaryCalls = 0

\* C7 witness: an answered request whose primary threw and whose secondary was
\* contacted once and threw as well
C7_Witness ==
    /\ Answered
    /\ primaryResp.kind = "throw"
    /\ secondaryResp.kind = "throw"
    /\ secondaryCalls = 1

\* C8: during a portfolio request never more than 5 quote fetches are in flight.
C8_AtMostFiveInFlight == InFlight <= batchSize

-----------------------------------------------------------------------------
(* Properties of fetchMultipleStockPrices                                  *)

\* the number of the batch that position j of a path's list falls in
BatchOf(j) == (j - 1) \div batchSize

\* a fetch result has been processed into the result map
Merged(r) == IsQuote(r) => r.symbol \in DOMAIN fmResults

\* within one path no fetch of a batch is issued before every fetch of each
\* earlier batch has settled and its result has been processed
Barrier(slots) ==
    \A j, k \in DOMAIN slots :
        (BatchOf(k) < BatchOf(j) /\ slots[j] # Idle) =>
            (Settled(slots[k]) /\ slots[k] # Rejected /\ Merged(slots[k]))

\* at most one batch of one path has fetches in flight
OneBatchInFlight ==
    /\ \A j, k \in DOMAIN fmStockSlots :
        (fmStockSlots[j] = Pending /\ fmStockSlots[k] = Pending) => BatchOf(j) = BatchOf(k)
    /\ \A j, k \in DOMAIN fmFundSlots :
        (fmFundSlots[j] = Pending /\ fmFundSlots[k] = Pending) => BatchOf(j) = BatchOf(k)
    /\ \A j \in DOMAIN fmStockSlots, k \in DOMAIN fmFundSlots :
        fmFundSlots[k] # Idle =>
            (Settled(fmStockSlots[j]) /\ fmStockSlots[j] # Rejected /\ Merged(fmStockSlots[j]))

\* a step that issues the next batch of the path already running is the end of a
\* pause, and a pause starts only while items of the path remain after the batch
PauseStep ==
    /\ (fmPc # "idle" /\ fmPc' = "await_all" /\ fmPath' = fmPath /\ fmI' # fmI) =>
           (fmPc = "pause" /\ fmI' = fmI + batchSize)
    /\ (fmPc = "await_all" /\ fmPath' = fmPath /\ fmI + batchSize < Len(FmList)) =>
           fmPc' \in {"await_all", "pause"} /\ fmI' = fmI
    /\ fmPc' = "pause" => fmI' + batchSize < Len(IF fmPath' = "stocks" THEN fmStocks' ELSE fmFunds')

\* C9: the batches of fetchMultipleStockPrices run strictly one after another: no fetch
\* of batch k+1 is issued before every fetch of batch k has settled and been processed;
\* a pause separates successive batches of the same path, and no pause follows the
\* last batch of a path.
C9_SequentialBatches ==
    /\ [](Barrier(fmStockSlots) /\ Barrier(fmFundSlots) /\ OneBatchInFlight)
    /\ [][PauseStep]_vars

\* C9 witness: the second batch of the fund path is in flight, after a stock path
C9_Witness ==
    /\ route = "prices"
    /\ fmPc = "await_all" /\ fmPath = "funds" /\ fmI = batchSize
    /\ \E j \in DOMAIN fmFundSlots : BatchOf(j) = 1 /\ fmFundSlots[j] = Pending
    /\ fmStocks # <<>>

\* the positions of a path's list that hold key and whose fetch produced a quote
QuotePositions(list, slots, key) == {j \in DOMAIN slots : list[j] = key /\ IsQuote(slots[j])}

\* the map holds key exactly when a fetch for it produced a quote, and then holds the
\* quote of the last such fetch
EntryAsFetched(list, slots, key) ==
    LET at == QuotePositions(list, slots, key)
    IN IF at = {} THEN key \notin DOMAIN fmResults
       ELSE /\ key \in DOMAIN fmResults
            /\ LET last == CHOOSE j \in at : \A k \in at : k <= j
               IN /\ fmResults[key] = slots[last]
                  /\ fmResults[key].price = slots[last].price

\* the failing answers of the two quote sources: non-OK, thrown error, missing payload,
\* a document none of the NAV patterns matches
EquityFailure(resp) == resp.kind \in {"notok", "throw"} \/ ~resp.hasResult
FundFailure(resp) ==
    resp.kind \in {"notok", "throw"} \/ \A k \in DOMAIN resp.captures : resp.captures[k] = NoMatch

\* C10: inside fetchMultipleStockPrices a failing single fetch (non-OK answer, missing
\* payload, thrown error, unparseable document) yields no entry for that key and
\* nothing else: the call never throws, every fetch of every batch of both paths is
\* made, and the returned map holds every key whose fetch succeeded, with its price.
C10_FailureIsLocal ==
    /\ \A resp \in EquityResponses :
        IF EquityFailure(resp) THEN fetchStockPriceV8(S_AAPL, resp) = Null
        ELSE IsQuote(fetchStockPriceV8(S_AAPL, resp))
    /\ \A resp \in FundResponses : FundFailure(resp) => fetchMutualFundNAV(C_47316169, resp) = Null
    /\ fmPc # "threw"
    /\ \A j \in DOMAIN fmStockSlots : fmStockSlots[j] # Rejected
    /\ \A j \in DOMAIN fmFundSlots : fmFundSlots[j] # Rejected
    /\ fmPc = "returned" =>
        /\ \A j \in DOMAIN fmStockSlots : Settled(fmStockSlots[j])
        /\ \A j \in DOMAIN fmFundSlots : Settled(fmFundSlots[j])
        /\ \A key \in Range(fmStocks) : EntryAsFetched(fmStocks, fmStockSlots, key)
        /\ \A key \in Range(fmFunds) : EntryAsFetched(fmFunds, fmFundSlots, key)
        /\ DOMAIN fmResults \subseteq Range(fmStocks) \cup Range(fmFunds)
    /\ (route = "prices" /\ pc = "done" /\ query.symbol = <<>> /\ query.symbols # <<>>) =>
        (response.status = 200 /\ response.prices = fmResults)

\* C10 witness: a call over two stock batches and a fund path has returned; a fetch of
\* the first stock batch failed while one of the second batch and a fund fetch succeeded
C10_Witness ==
    /\ route = "prices" /\ pc = "done" /\ fmPc = "returned"
    /\ \E j, k \in DOMAIN fmStockSlots :
        /\ BatchOf(j) = 0 /\ fmStockSlots[j] = Null /\ fmStocks[j] \notin DOMAIN fmResults
        /\ BatchOf(k) = 1 /\ IsQuote(fmStockSlots[k]) /\ fmStocks[k] \in DOMAIN fmResults
    /\ \E j \in DOMAIN fmFundSlots : IsQuote(fmFundSlots[j])

-----------------------------------------------------------------------------
(* Properties of the fetch keys and of the quote map                       *)

\* the fetches issued so far in the request, each named by its path and position
IssuedFetches ==
    {<<"stock", j>> : j \in {k \in DOMAIN fmStockSlots : fmStockSlots[k] # Idle}}
    \cup {<<"fund", j>> : j \in {k \in DOMAIN fmFundSlots : fmFundSlots[k] # Idle}}
    \cup {<<"nav", j>> : j \in {k \in DOMAIN navSlots : navSlots[k] \notin {Idle, Skipped}}}

\* the key (normalized equity symbol or fund code) an issued fetch asks the source for
FetchKey(f) ==
    IF f[1] = "stock" THEN fmStocks[f[2]]
    ELSE IF f[1] = "fund" THEN fmFunds[f[2]]
    ELSE navEntries[f[2]].code

\* C11: within one portfolio request no fetch key (normalized equity symbol or fund
\* code) is fetched more than once, however many holdings resolve to it.
C11_EachKeyFetchedOnce ==
    route = "portfolio" =>
        \A f, g \in IssuedFetches : FetchKey(f) = FetchKey(g) => f = g

\* the fetch key holding h resolves to: the normalized symbol of an equity, the fund
\* code of a fund (<<>> when it has none)
FetchKeyOf(h) ==
    IF h.category # "mutual_fund" THEN normalizeSymbolForPriceLookup(h.symbol)
    ELSE IF variant = "v1" THEN FundCodeOf(h.symbol)
    ELSE FundCodeV2(h)

\* C12: two holdings that resolve to the same fetch key (same fund code, or equities
\* normalizing to the same symbol) end the request with identical resolved prices:
\* both carry the one fetched price, or neither has a live quote.
C12_SharedKeySamePrice ==
    Answered =>
        \A j, k \in DOMAIN holdings :
            (j # k /\ FetchKeyOf(holdings[j]) = FetchKeyOf(holdings[k])
                   /\ FetchKeyOf(holdings[j]) # <<>>) =>
                \/ /\ IsQuote(LiveQuoteAt(j))
                   /\ LiveQuoteAt(k) = LiveQuoteAt(j)
                   /\ response.holdings[j].currentPrice = LiveQuoteAt(j).price
                   /\ response.holdings[k].currentPrice = LiveQuoteAt(j).price
                \/ /\ ~IsQuote(LiveQuoteAt(j))
                   /\ ~IsQuote(LiveQuoteAt(k))

\* symbol is a Tokyo code (4 digits and an optional letter) with the market suffix
\* '.T', n characters long, followed by a broker suffix (whatever follows the '.T')
TokyoCodeWithSuffix(symbol, n) ==
    /\ Len(symbol) > n
    /\ \A j \in 1..4 : symbol[j] \in Digits
    /\ \/ n = 6
       \/ n = 7 /\ symbol[5] \in Letters
    /\ symbol[n - 1] = "." /\ symbol[n] = "T"

\* C13: normalizeSymbolForPriceLookup returns the Tokyo code with its '.T' when the
\* symbol is a 4-digit-plus-optional-letter code followed by '.T' and a broker suffix,
\* returns every other symbol unchanged, and is idempotent.
C13_NormalizeStripsBrokerSuffix ==
    (route = "normalize" /\ pc # "start") =>
        /\ \A n \in {6, 7} :
            TokyoCodeWithSuffix(query.symbol, n) => response.value = SubSeq(query.symbol, 1, n)
        /\ (\A n \in {6, 7} : ~TokyoCodeWithSuffix(query.symbol, n)) =>
               response.value = query.symbol
        /\ pc = "twice" => response.again = response.value

\* C13 witness: '1234A.T-sbi' has given '1234A.T', and that has given itself
C13_Witness ==
    /\ route = "normalize" /\ pc = "twice"
    /\ query.symbol = <<"1", "2", "3", "4", "A", ".", "T", "-", "s", "b", "i">>
    /\ response.value = <<"1", "2", "3", "4", "A", ".", "T">>
    /\ response.again = response.value

\* the original symbols of the holdings of the request
HoldingSymbols == {holdings[j].symbol : j \in DOMAIN holdings}

\* C14: in every tier every key of the quote map handed to the valuation functions is
\* the original symbol of some holding of the request, never a normalized fetch key,
\* a fund code or a symbol that belongs to no holding.
C14_KeysAreHoldingSymbols ==
    Answered => DOMAIN prices \subseteq HoldingSymbols

\* the number a captured text stands for once its commas are removed (-1: not a number)
NumberCaptured(c) ==
    CASE c = <<"0">> -> 0
      [] c = <<",">> -> -1
      [] c = <<"7">> -> 7
      [] c = <<"1", "2", ",", "3", "4", "5">> -> 12345

\* the patterns of a page, in the order styled number, span before the yen sign,
\* label-prefixed number, metadata content, data attribute, that captured a positive number
PositivePatterns(captures) ==
    {k \in 1..5 : captures[k] # NoMatch /\ NumberCaptured(captures[k]) > 0}

\* C15: the NAV extraction tries its five patterns in their fixed order, strips commas,
\* and returns the value of the first pattern whose number is strictly positive; when
\* no pattern yields a positive number it returns null, never a quote with price 0.
C15_FirstPositivePattern ==
    (route = "nav" /\ pc = "done") =>
        /\ IsQuote(response.result) => response.result.price > 0
        /\ query.doc.kind = "ok" =>
            LET pos == PositivePatterns(query.doc.captures)
            IN IF pos = {} THEN response.result = Null
               ELSE LET first == CHOOSE k \in pos : \A m \in pos : k <= m
                    IN /\ IsQuote(response.result)
                       /\ response.result.price = NumberCaptured(query.doc.captures[first])

\* C15 witness: the first pattern captured '0', the second nothing, the third '12,345'
\* and the fourth '7': the NAV returned is 12345
C15_Witness ==
    /\ route = "nav" /\ pc = "done"
    /\ query.doc.kind = "ok"
    /\ query.doc.captures[1] = <<"0">>
    /\ query.doc.captures[2] = NoMatch
    /\ query.doc.captures[3] = <<"1", "2", ",", "3", "4", "5">>
    /\ query.doc.captures[4] = <<"7">>
    /\ response.result.price = 12345

\* C16: every quote in the map returned by fetchMultipleStockPrices, on the equity path
\* and on the fund path, has a price strictly greater than 0; an answer without a
\* usable price produces no entry.
C16_ReturnedPricesPositive ==
    fmPc = "returned" => \A key \in DOMAIN fmResults : fmResults[key].price > 0

-----------------------------------------------------------------------------
(* Properties of the valuation                                             *)

\* the valuation steps have produced the snapshot
Valued == route = "valuation" /\ pc = "done"

\* the quote map has a usable price for the symbol
HasUsablePrice(symbol) ==
    symbol \in DOMAIN prices /\ prices[symbol].price # undefined /\ prices[symbol].price # 0
\* (amounts are exact integers here: the rounding of floating-point products is not modelled)
\* C17: for every holding of the snapshot currentPrice is the quote's price for its
\* symbol, or its avgCost when there is no quote or no usable price; totalValue is
\* currentPrice * quantity and unrealizedPL is (currentPrice - avgCost) * quantity; the
\* values of calculateHoldingsValue and those recomputed by the route agree.
C17_HoldingValuation ==
    Valued =>
        \A j \in DOMAIN holdings :
            LET h == holdings[j]
                out == response.holdings[j]
                enriched == calculateHoldingsValue(holdings, prices, usdJpyRate).holdings[j]
            IN /\ out.currentPrice = IF HasUsablePrice(h.symbol) THEN prices[h.symbol].price
                                     ELSE h.avgCost
               /\ out.totalValue = out.currentPrice * h.quantity
               /\ out.unrealizedPL = (out.currentPrice - h.avgCost) * h.quantity
               /\ enriched.currentPrice = out.currentPrice
               /\ enriched.totalValue = out.totalValue
               /\ enriched.unrealizedPL = out.unrealizedPL

\* C17 witness: a snapshot of two holdings, one valued at its quote with a gain, the
\* other at its avgCost because the price in the map is 0
C17_Witness ==
    /\ Valued
    /\ \E j, k \in DOMAIN holdings :
        /\ HasUsablePrice(holdings[j].symbol)
        /\ response.holdings[j].unrealizedPL > 0
        /\ holdings[k].symbol \in DOMAIN prices /\ prices[holdings[k].symbol].price = 0
        /\ response.holdings[k].currentPrice = holdings[k].avgCost
        /\ holdings[k].quantity > 0

RECURSIVE Gcd(_, _)
Gcd(a, b) == IF b = 0 THEN a ELSE Gcd(b, a % b)

Abs(n) == IF n < 0 THEN -n ELSE n

\* an exact quotient in lowest terms (the denominator of a percentage is positive)
Lowest(q) ==
    LET g == Gcd(Abs(q.num), q.den)
    IN [num |-> q.num \div g, den |-> q.den \div g]

\* two exact quotients are the same number
SameNumber(a, b) == Lowest(a) = Lowest(b)

\* C18: for every holding of the snapshot unrealizedPLPercent is 0 whenever the cost
\* basis avgCost * quantity is 0 (quantity 0 with avgCost > 0 included), and otherwise
\* equals unrealizedPL / (avgCost * quantity) * 100.
C18_PercentOfCostBasis ==
    Valued =>
        \A j \in DOMAIN holdings :
            LET h == holdings[j]
                out == response.holdings[j]
                costBasis == h.avgCost * h.quantity
            IN IF costBasis = 0
               THEN SameNumber(out.unrealizedPLPercent, ZeroPercentage)
               ELSE SameNumber(out.unrealizedPLPercent,
                               [num |-> out.unrealizedPL * 100, den |-> costBasis])


\* the value in JPY of the first n resolved holdings of the snapshot, summed one by one
RECURSIVE ValueInJPY(_)
ValueInJPY(n) ==
    IF n = 0 THEN 0
    ELSE LET out == response.holdings[n]
             value == out.currentPrice * out.quantity
         IN ValueInJPY(n - 1)
              + (IF out.currency = "USD" THEN value * response.exchangeRate ELSE value)

\* C19: the holdings total in JPY returned by calculateHoldingsValue is the sum over the
\* holdings of currentPrice * quantity, multiplied by the resolved exchange rate for the
\* holdings in USD and taken as it is for the holdings in JPY.
C19_TotalInJPY ==
    Valued => response.totalValueJPY = ValueInJPY(Len(holdings))

\* 50 units at 182.5 USD (amounts in tenths) and a rate of 150 next to a holding in JPY:
\* the USD holding contributes 1,368,750.0
C19_Witness ==
    /\ Valued
    /\ Len(holdings) = 2
    /\ usdJpyRate = 150
    /\ \E j, k \in DOMAIN holdings :
        /\ holdings[j].currency = "USD" /\ holdings[j].quantity = 50
        /\ response.holdings[j].currentPrice = 1825
        /\ holdings[k].currency = "JPY" /\ response.holdings[k].totalValue > 0
        /\ response.totalValueJPY = 13687500 + response.holdings[k].totalValue

\* the sum of two exact quotients, over the least common multiple of their denominators
SumOfQuotients(a, b) ==
    LET x == Lowest(a)
        y == Lowest(b)
        l == (x.den \div Gcd(x.den, y.den)) * y.den
    IN Lowest([num |-> x.num * (l \div x.den) + y.num * (l \div y.den), den |-> l])

\* the JPY values of the first n categories of the snapshot, summed one by one
RECURSIVE CategoryValues(_)
CategoryValues(n) ==
    IF n = 0 THEN 0 ELSE CategoryValues(n - 1) + response.categories[n].valueJPY

\* the percentages of the first n categories of the snapshot, summed one by one
RECURSIVE CategoryPercentages(_)
CategoryPercentages(n) ==
    IF n = 0 THEN ZeroPercentage
    ELSE SumOfQuotients(CategoryPercentages(n - 1), response.categories[n].percentage)

\* C20: in the result of generateCategorySummary each category's percentage is its JPY
\* value divided by the grand total times 100, so the percentages sum to 100 whenever
\* the grand total is greater than 0, and every percentage is 0 when the grand total is 0.
C20_CategoryPercentages ==
    Valued =>
        LET categories == response.categories
            grandTotal == CategoryValues(Len(categories))
        IN /\ \A j \in DOMAIN categories :
                IF grandTotal = 0
                THEN SameNumber(categories[j].percentage, ZeroPercentage)
                ELSE SameNumber(categories[j].percentage,
                                [num |-> categories[j].valueJPY * 100, den |-> grandTotal])
           /\ grandTotal > 0 =>
                SameNumber(CategoryPercentages(Len(categories)), [num |-> 100, den |-> 1])

\* two categories that each hold a part of a positive grand total
C20_Witness ==
    /\ Valued
    /\ Len(response.categories) = 2
    /\ \A j \in DOMAIN response.categories :
        /\ response.categories[j].valueJPY > 0
        /\ response.categories[j].percentage.num > 0
    /\ response.categories[1].valueJPY > response.categories[2].valueJPY

\* the unrealizedPL of the first n holdings of the snapshot, each converted to JPY
RECURSIVE UnrealizedInJPY(_)
UnrealizedInJPY(n) ==
    IF n = 0 THEN 0
    ELSE LET out == response.holdings[n]
         IN UnrealizedInJPY(n - 1)
              + (IF out.currency = "USD" THEN out.unrealizedPL * response.exchangeRate
                 ELSE out.unrealizedPL)

\* the cost basis avgCost * quantity of the first n holdings, each converted to JPY
RECURSIVE CostInJPY(_)
CostInJPY(n) ==
    IF n = 0 THEN 0
    ELSE LET h == holdings[n]
         IN CostInJPY(n - 1)
              + (IF h.currency = "USD" THEN h.avgCost * h.quantity * response.exchangeRate
                 ELSE h.avgCost * h.quantity)

\* C21: totalUnrealizedPL of the summary is the holdings total in JPY minus the total
\* cost basis in JPY, which is the sum of the holdings' unrealizedPL each converted to
\* JPY; totalUnrealizedPLPercent is that aggregate divided by the total cost basis
\* times 100, and 0 when the total cost basis is 0.
C21_AggregateUnrealizedPL ==
    Valued =>
        LET n == Len(holdings)
            summary == response.summary
        IN /\ summary.totalUnrealizedPL = response.totalValueJPY - CostInJPY(n)
           /\ summary.totalUnrealizedPL = UnrealizedInJPY(n)
           /\ IF CostInJPY(n) = 0
              THEN SameNumber(summary.totalUnrealizedPLPercent, ZeroPercentage)
              ELSE SameNumber(summary.totalUnrealizedPLPercent,
                              [num |-> summary.totalUnrealizedPL * 100, den |-> CostInJPY(n)])

\* a JPY holding and a USD holding with different gains: the percentage of the
\* aggregate is the percentage of neither holding
C21_Witness ==
    /\ Valued
    /\ Len(holdings) = 2
    /\ {holdings[1].currency, holdings[2].currency} = {"JPY", "USD"}
    /\ \A j \in 1..2 : response.holdings[j].unrealizedPL > 0
    /\ \A j \in 1..2 : ~SameNumber(response.summary.totalUnrealizedPLPercent,
                                   response.holdings[j].unrealizedPLPercent)

\* const prevClose = previousCloseMap.get(symbol) is truthy: the quote of the symbol
\* brought a previous close
HasPreviousClose(symbol) ==
    symbol \in DOMAIN previousCloseMap /\ Truthy(previousCloseMap[symbol])

\* the value in JPY of the first n holdings at their previous close, a holding without
\* a previous close taken at its current price
RECURSIVE PreviousValueInJPY(_)
PreviousValueInJPY(n) ==
    IF n = 0 THEN 0
    ELSE LET out == response.holdings[n]
             previous == IF HasPreviousClose(out.symbol) THEN previousCloseMap[out.symbol]
                         ELSE out.currentPrice
             value == previous * out.quantity
         IN PreviousValueInJPY(n - 1)
              + (IF out.currency = "USD" THEN value * response.exchangeRate ELSE value)

\* the request was answered from the Cache tier or the Cost-basis tier
AnsweredBelowLive ==
    route = "portfolio" /\ pc = "done" /\ response.source = "live"
        /\ response.priceSource # "yahoo_finance"

DatedIn(record) == getFullYear(record.date, query.offset) = query.year

\* the realizedPL of the first n transactions that are sales of the year, each in JPY
RECURSIVE RealizedOfYear(_)
RealizedOfYear(n) ==
    IF n = 0 THEN 0
    ELSE LET t == query.transactions[n]
             own == IF t.realizedPL = undefined THEN 0 ELSE t.realizedPL
         IN RealizedOfYear(n - 1)
              + (IF ~(DatedIn(t) /\ t.type = "sell") THEN 0
                 ELSE IF t.currency = "USD" THEN own * query.rate ELSE own)

\* the amounts of the first n dividends that are of the year, each in JPY
RECURSIVE DividendsOfYear(_)
DividendsOfYear(n) ==
    IF n = 0 THEN 0
    ELSE LET d == query.dividends[n]
         IN DividendsOfYear(n - 1)
              + (IF ~DatedIn(d) THEN 0
                 ELSE IF d.currency = "USD" THEN d.amount * query.rate ELSE d.amount)

IsErrorPayload(r) ==
    r.source = "error" /\ r.status = 500 /\ r.holdings = <<>> /\ r.exchangeRate = 150

\* the answer of a request that went past the read of the holdings: the snapshot, with
\* one entry per holding in the order of the holdings
ListsEveryHolding ==
    /\ response.status = 200 /\ response.source = "live"
    /\ Len(response.holdings) = Len(holdings)
    /\ \A j \in DOMAIN holdings :
        response.holdings[j].id = holdings[j].id
            /\ response.holdings[j].symbol = holdings[j].symbol

\* C24: a portfolio request answers with the error payload (status 500, source 'error',
\* empty holdings, exchange rate 150) only when a read of the store at the start of the
\* request fails; whatever the quote providers, the read of the cached prices and the
\* rate providers do, it answers with a snapshot that lists every holding.
C24_ErrorOnlyFromFirstRead ==
    /\ [][(response'.source = "error" /\ response.source # "error") =>
            (pc = "start" /\ IsErrorPayload(response'))]_vars
    /\ []((route = "portfolio" /\ pc = "done" /\ tiers # <<>>) => ListsEveryHolding)

\* the quote providers, the read of the cached prices and both rate providers failed,
\* and the request answered with every holding at its cost
C24_Witness ==
    /\ route = "portfolio" /\ pc = "done"
    /\ tiers = <<"live", "cache", "costbasis">>
    /\ cacheRead = "failed"
    /\ primaryResp.kind = "throw" /\ secondaryResp.kind = "throw"
    /\ Len(holdings) = 2
    /\ ListsEveryHolding
    /\ response.exchangeRate = 150

\* the request has returned, having issued at most as many quote and document fetches
\* as it has holdings, asked the rate providers at most twice and entered no stage twice
ReturnedWithinBounds ==
    /\ pc = "done" /\ response.status # 0
    /\ Cardinality(IssuedFetches) <= Len(holdings)
    /\ primaryCalls + secondaryCalls <= 2
    /\ \A j, k \in DOMAIN tiers : tiers[j] = tiers[k] => j = k

\* C25: every portfolio request eventually returns a response when each external call
\* eventually returns or fails; the fetches it has issued by then are at most as many
\* as the holdings, plus at most two rate attempts, and no stage was entered twice.
C25_Terminates == <>ReturnedWithinBounds

\* a request that used as many fetches as it has holdings, all three stages and both
\* rate providers, and returned
C25_Witness ==
    /\ route = "portfolio" /\ pc = "done" /\ response.status = 200
    /\ Len(holdings) = 2
    /\ Cardinality(IssuedFetches) = 2
    /\ primaryCalls = 1 /\ secondaryCalls = 1
    /\ tiers = <<"live", "cache", "costbasis">>

\* the rows of the symbol in the history read
RowsOf(symbol) == {j \in DOMAIN query.rows : query.rows[j].symbol = symbol}

\* the rows of the symbol that carry the latest date of its rows
LatestRowsOf(symbol) ==
    {j \in RowsOf(symbol) : \A k \in RowsOf(symbol) : query.rows[k].date <= query.rows[j].date}

\* C26: getLatestPrices returns, for every symbol that has a row in the price history,
\* the price and currency of a row whose date is the latest among the symbol's rows,
\* whatever the order in which the rows were appended; symbols without rows are absent.
C26_LatestRowPerSymbol ==
    (route = "latest" /\ pc = "done") =>
        \A m \in {response.latest, response.opposite} :
            /\ DOMAIN m = {query.rows[j].symbol : j \in DOMAIN query.rows}
            /\ \A symbol \in DOMAIN m :
                \E j \in LatestRowsOf(symbol) :
                    /\ m[symbol].price = query.rows[j].price
                    /\ m[symbol].currency = query.rows[j].currency

\* the newest row of a symbol was appended first, an older one after it, and another
\* symbol has a row as well
C26_Witness ==
    /\ route = "latest" /\ pc = "done"
    /\ Len(query.rows) = 3
    /\ query.rows[1].symbol = S_7203T /\ query.rows[2].symbol = S_7203T
    /\ query.rows[1].date > query.rows[2].date
    /\ query.rows[3].symbol = S_AAPL
    /\ response.latest[S_7203T].price = query.rows[1].price
    /\ response.opposite = response.latest

\* the Japanese mutual fund codes the program names: the examples in the comment of
\* isMutualFundCode and the codes of FUND_CODE_MAP
NamedFundCodes ==
    {C_9331107A, C_47316169, C_AW31122B} \cup Range(FUND_CODE_MAP)

\* C27: fetchMultipleStockPrices sends each input symbol to exactly one of its two
\* paths, and sends every Japanese mutual fund code (the examples 9331107A, 47316169,
\* AW31122B and every code of FUND_CODE_MAP) to the fund NAV path and never to the
\* equity chart API.
C27_FundCodesToFundPath ==
    (route = "prices" /\ query.symbol = <<>> /\ query.symbols # <<>> /\ fmPc # "idle") =>
        /\ \A symbol \in Range(query.symbols) :
            (symbol \in Range(fmStocks)) # (symbol \in Range(fmFunds))
        /\ \A symbol \in Range(query.symbols) \cap NamedFundCodes :
            symbol \in Range(fmFunds) /\ symbol \notin Range(fmStocks)

\* the values of the first n category summaries of the snapshot, summed one by one
RECURSIVE SumOfCategories(_)
SumOfCategories(n) ==
    IF n = 0 THEN 0 ELSE SumOfCategories(n - 1) + response.categories[n].value

\* C28: in every successful portfolio response the three totals agree: the sum of the
\* values of the category summaries equals summary.totalValue and equals
\* totalValueJPY, in every tier and for every combination of missing quotes.
C28_TotalsAgree ==
    Answered =>
        /\ SumOfCategories(Len(response.categories)) = response.summary.totalValue
        /\ response.summary.totalValue = response.totalValueJPY

\* two holdings of one category answered from the Cache tier, which has a price for
\* one symbol only
C28_Witness ==
    /\ Answered
    /\ response.priceSource = "google_sheets_cache"
    /\ Len(holdings) = 2
    /\ holdings[1].category = holdings[2].category
    /\ \E j, k \in DOMAIN holdings :
        holdings[j].symbol \in DOMAIN prices /\ holdings[k].symbol \notin DOMAIN prices
    /\ response.totalValueJPY > 0

\* the key under which the live stage of the portfolio route fetches the quote of a
\* holding: the fund code of FUND_CODE_MAP for a fund ('' when it has none, and then
\* no fetch is made), the normalized symbol for any other holding
LiveFetchKey(h) ==
    IF h.category = "mutual_fund" THEN FundCodeOf(h.symbol) ELSE StockQuoteKey(h)

\* C29: the cron price update fetches each holding through the fetch key of the
\* portfolio route: once it has called fetchMultipleStockPrices, the fund code of
\* every fund holding that has one is among the symbols sent to the fund NAV path, and
\* the normalized symbol of every other holding is among those sent to the chart API.
C29_CronUsesLiveFetchKeys ==
    (route = "cron" /\ pc = "cron_prices") =>
        \A j \in DOMAIN holdings :
            IF holdings[j].category = "mutual_fund"
            THEN LiveFetchKey(holdings[j]) # <<>> =>
                     LiveFetchKey(holdings[j]) \in Range(fmFunds)
            ELSE LiveFetchKey(holdings[j]) \in Range(fmStocks)

\* the cron request has returned its success payload
CronSucceeded == route = "cron" /\ pc = "done" /\ response.status = 200

\* the rate a provider resolved in this request, undefined when none did
ResolvedRate ==
    IF primaryResp = NoResponse THEN undefined
    ELSE LET r == fetchUsdJpyRate(primaryResp)
         IN IF r.kind = "rate" THEN r.rate
            ELSE IF secondaryResp # NoResponse /\ fetchFromAlternativeApi(secondaryResp).kind = "rate"
            THEN fetchFromAlternativeApi(secondaryResp).rate
            ELSE undefined

\* the rows of price_history are one per quote the fetcher returned, with its values
RowsAreTheQuotes ==
    /\ Len(sheets.price_history) = Cardinality(DOMAIN fmResults)
    /\ \A symbol \in DOMAIN fmResults :
        \E j \in DOMAIN sheets.price_history :
            sheets.price_history[j] =
                savePriceData(symbol, fmResults[symbol].price, fmResults[symbol].currency, "today")

\* nothing was read, fetched or appended
NothingTouched ==
    /\ holdings = <<>>
    /\ fmPc = "idle" /\ fmStockSlots = <<>> /\ fmFundSlots = <<>> /\ fmResults = EmptyMap
    /\ primaryCalls = 0 /\ secondaryCalls = 0
    /\ sheets.price_history = <<>> /\ sheets.exchange_rates = <<>>

\* s is an initial part of t
IsPrefix(s, t) == Len(s) <= Len(t) /\ SubSeq(t, 1, Len(s)) = s

\* C30: an authorized cron price update that returns success has appended exactly one
\* price row per quote the fetcher returned, updatedSymbols being the number of rows
\* appended, and one exchange-rate row exactly when a provider resolved a rate, with
\* that rate (the fallback 150 is never written); an unauthorized request answers 401
\* without a store read, a fetch or an append; rows once appended are never taken back,
\* so after an append that fails part-way the answer is the error and the rows
\* appended before it remain.
C30_CronAppends ==
    /\ [](CronSucceeded =>
            /\ query.authorized
            /\ RowsAreTheQuotes
            /\ response.updatedSymbols = Len(sheets.price_history)
            /\ response.exchangeRate = ResolvedRate
            /\ sheets.exchange_rates =
                   IF ResolvedRate # undefined
                   THEN <<saveExchangeRate(ResolvedRate, "today")>> ELSE <<>>)
    /\ []((route = "cron" /\ ~query.authorized) =>
            /\ NothingTouched
            /\ pc \in {"start", "done"}
            /\ pc = "done" => response.status = 401)
    /\ []((route = "cron" /\ pc = "done" /\ response.status = 500) =>
            Len(sheets.price_history) = savedCount)
    /\ [][/\ IsPrefix(sheets.price_history, sheets'.price_history)
          /\ IsPrefix(sheets.exchange_rates, sheets'.exchange_rates)]_vars

\* a successful run that appended a row for each of two quotes and the rate of the
\* secondary provider
C30_Witness ==
    /\ CronSucceeded
    /\ response.updatedSymbols = 2
    /\ Len(sheets.price_history) = 2
    /\ secondaryCalls = 1
    /\ Len(sheets.exchange_rates) = 1

====
